---- MODULE Spec2Model ----
(***************************************************************************)
(* A model of the back end of the `ras` assembler: address assignment and  *)
(* same-section relocation fixing (src/src/encoder/addr.rs) followed by    *)
(* the ELF64 object writer (src/src/elf/elf64.rs).                         *)
(*                                                                         *)
(* Names are sequences of one-character strings, byte buffers are          *)
(* sequences of numbers 0..255.  An instruction record is one object: the  *)
(* section list, the symbol table entry and the relocation that were made  *)
(* from it carry the same `id`, and the address given to the instruction   *)
(* is the address seen through all three.                                  *)
(*                                                                         *)
(* usize values are kept as mathematical integers standing for their       *)
(* residue modulo 2^64; a subtraction or addition that leaves 0..2^64-1    *)
(* panics when the build has overflow checks and wraps otherwise.          *)
(***************************************************************************)
EXTENDS Integers, Sequences, FiniteSets, TLC

VARIABLES
    keep_locals,      \* Args::keep_locals, handed to Elf::new
    overflow_checks,  \* the build profile: TRUE = arithmetic overflow panics
    instrs,           \* Encoder::instrs: <<[name, list]>> per section
    symbols,          \* USER_DEFINED_SYMBOLS: name -> Instr
    relas,            \* RELA_TEXT_USERS: sequence of Rela
    sections,         \* USER_DEFINED_SECTIONS: name -> UserDefinedSection
    e,                \* the Elf value built by the writer
    file,             \* what write_elf has written: <<[what, offset, size]>>
    pc,               \* the pipeline step reached
    panicked,         \* "" or the panic that aborted the process
    call,             \* a function called on its own: its name and arguments
    ret               \* what that call returned, or the panic that ended it

vars == <<keep_locals, overflow_checks, instrs, symbols, relas, sections, e,
          file, pc, panicked, call, ret>>

\* The longest program (statements after the implicit `.text`) Init draws.
MaxInstrs == 3

---------------------------------------------------------------------------
(* ELF constants                                                           *)

STB_LOCAL == 0
STB_GLOBAL == 1
STT_NOTYPE == 0
STT_SECTION == 3
SHT_NULL == 0
SHT_PROGBITS == 1
SHT_SYMTAB == 2
SHT_STRTAB == 3
SHT_RELA == 4
SHF_WRITE == 1
SHF_ALLOC == 2
SHF_EXECINSTR == 4
SHF_INFO_LINK == 64
R_X86_64_64 == 1
R_X86_64_PC32 == 2
R_X86_64_PLT32 == 4
R_X86_64_32 == 10
R_X86_64_32S == 11
R_X86_64_16 == 12
R_X86_64_8 == 14
STV_DEFAULT == 0
STV_INTERNAL == 1
STV_HIDDEN == 2
STV_PROTECTED == 3

\* mem::size_of of the #[repr(C)] structs
SizeOfEhdr == 64
SizeOfSym == 24
SizeOfShdr == 64
SizeOfRela == 24
SizeOfPhdr == 56

---------------------------------------------------------------------------
(* Maps and names                                                          *)

EmptyMap == [x \in {} |-> 0]

Put(f, k, v) == [x \in (DOMAIN f) \cup {k} |-> IF x = k THEN v ELSE f[x]]

Contains(s, x) == \E i \in 1..Len(s) : s[i] = x

\* the byte 0x00 of a string table
NUL == "\\0"

N_empty == <<>>
N_text == <<".", "t", "e", "x", "t">>
N_ldata == <<".", "l", "d", "a", "t", "a">>
N_f == <<"f">>
N_g == <<"g">>
N_L1 == <<".", "L", "1">>
N_strtab == <<".", "s", "t", "r", "t", "a", "b">>
N_symtab == <<".", "s", "y", "m", "t", "a", "b">>
N_shstrtab == <<".", "s", "h", "s", "t", "r", "t", "a", "b">>
N_rela == <<".", "r", "e", "l", "a">>

\* char::to_uppercase on the characters names are made of
LowerCase == <<"a", "b", "c", "d", "e", "f", "g", "h", "i", "j", "k", "l", "m", "n", "o", "p", "q", "r", "s", "t", "u", "v", "w", "x", "y", "z">>
UpperCase == <<"A", "B", "C", "D", "E", "F", "G", "H", "I", "J", "K", "L", "M", "N", "O", "P", "Q", "R", "S", "T", "U", "V", "W", "X", "Y", "Z">>

UpperChar(c) ==
    IF \E k \in 1..Len(LowerCase) : LowerCase[k] = c
    THEN UpperCase[CHOOSE k \in 1..Len(LowerCase) : LowerCase[k] = c]
    ELSE c

DigitChar == <<"0", "1", "2", "3", "4", "5", "6", "7", "8", "9">>

to_uppercase(name) == [i \in 1..Len(name) |-> UpperChar(name[i])]

starts_with(name, prefix) ==
    /\ Len(name) >= Len(prefix)
    /\ SubSeq(name, 1, Len(prefix)) = prefix

---------------------------------------------------------------------------
(* Records                                                                 *)

\* Instr::default(); `id` is the identity of the record
DefaultInstr ==
    [id |-> 0, kind |-> "None", code |-> <<>>, symbol_name |-> N_empty,
     flags |-> <<>>, addr |-> 0, binding |-> STB_LOCAL,
     visibility |-> STV_DEFAULT, symbol_type |-> STT_NOTYPE,
     section |-> N_empty, is_jmp_or_call |-> FALSE]

MkRela(uses, instr, offset, rtype, adjust) ==
    [uses |-> uses, instr |-> instr, offset |-> offset, rtype |-> rtype,
     adjust |-> adjust, is_already_resolved |-> FALSE]

\* UserDefinedSection::default()
DefaultSection == [code |-> <<>>, addr |-> 0, flags |-> 0]

---------------------------------------------------------------------------
(* The encoder's output: the instruction lists, symbol table and           *)
(* relocation list a program leaves behind.  Addresses are not known yet.  *)

Stmts ==
    { [op |-> "section", name |-> N_ldata],
      [op |-> "label", name |-> N_f],
      [op |-> "label", name |-> N_L1],
      [op |-> "global", name |-> N_L1],
      [op |-> "call", name |-> N_L1],
      [op |-> "call", name |-> N_g],
      [op |-> "callplt", name |-> N_f],
      [op |-> "push", name |-> N_f],
      [op |-> "lea", name |-> N_f] }

RECURSIVE SeqsUpTo(_, _)
SeqsUpTo(S, n) ==
    IF n = 0 THEN {<<>>}
    ELSE LET shorter == SeqsUpTo(S, n - 1)
         IN shorter \cup {Append(p, s) : p \in {q \in shorter : Len(q) = n - 1}, s \in S}

Programs == SeqsUpTo(Stmts, MaxInstrs)

SectionIndex(list, name) ==
    IF \E i \in 1..Len(list) : list[i].name = name
    THEN CHOOSE i \in 1..Len(list) : list[i].name = name
    ELSE 0

\* append instruction i to the list of its section, creating the list
PushInstr(list, i) ==
    LET k == SectionIndex(list, i.section)
    IN IF k = 0 THEN Append(list, [name |-> i.section, list |-> <<i>>])
       ELSE [list EXCEPT ![k].list = Append(@, i)]

\* the InstrKind of the instruction a binding or visibility directive leaves
DirectiveKind ==
    [op \in {"global", "local", "hidden", "internal", "protected"} |->
        CASE op = "global" -> "Global"
          [] op = "local" -> "Local"
          [] op = "hidden" -> "Hidden"
          [] op = "internal" -> "Internal"
          [] op = "protected" -> "Protected"]

EncodeStmt(enc, st) ==
    LET base == [DefaultInstr EXCEPT !.id = enc.next_id, !.section = enc.cur]
        next == [enc EXCEPT !.next_id = @ + 1]
    IN CASE st.op = "section" ->
              LET i == [base EXCEPT !.kind = "Section", !.section = st.name,
                                    !.symbol_name = st.name,
                                    !.symbol_type = STT_SECTION,
                                    !.flags = <<"a", "w">>]
              IN [next EXCEPT !.cur = st.name,
                              !.instrs = PushInstr(@, i),
                              !.symbols = IF st.name \in DOMAIN @ THEN @
                                          ELSE Put(@, st.name, i)]
         [] st.op = "label" ->
              LET i == [base EXCEPT !.kind = "Label", !.symbol_name = st.name]
              IN [next EXCEPT !.instrs = PushInstr(@, i),
                              !.symbols = Put(@, st.name, i)]
         [] st.op \in DOMAIN DirectiveKind ->
              LET i == [base EXCEPT !.kind = DirectiveKind[st.op],
                                    !.symbol_name = st.name]
              IN [next EXCEPT !.instrs = PushInstr(@, i)]
         [] st.op = "call" ->
              \* e8 rel32
              LET i == [base EXCEPT !.kind = "Call", !.is_jmp_or_call = TRUE,
                                    !.code = <<232, 0, 0, 0, 0>>]
              IN [next EXCEPT !.instrs = PushInstr(@, i),
                              !.relas = Append(@, MkRela(st.name, i, 1, R_X86_64_PC32, 0))]
         [] st.op = "callplt" ->
              \* e8 rel32, `call f@PLT`
              LET i == [base EXCEPT !.kind = "Call", !.is_jmp_or_call = TRUE,
                                    !.code = <<232, 0, 0, 0, 0>>]
              IN [next EXCEPT !.instrs = PushInstr(@, i),
                              !.relas = Append(@, MkRela(st.name, i, 1, R_X86_64_PLT32, 0))]
         [] st.op = "push" ->
              \* 68 imm32, `push $f+2`
              LET i == [base EXCEPT !.kind = "Push", !.code = <<104, 0, 0, 0, 0>>]
              IN [next EXCEPT !.instrs = PushInstr(@, i),
                              !.relas = Append(@, MkRela(st.name, i, 1, R_X86_64_32S, 2))]
         [] st.op = "lea" ->
              \* 48 8d 05 disp32, `lea f+2(%rip), %rax`
              LET i == [base EXCEPT !.kind = "Lea", !.code = <<72, 141, 5, 0, 0, 0, 0>>]
              IN [next EXCEPT !.instrs = PushInstr(@, i),
                              !.relas = Append(@, MkRela(st.name, i, 3, R_X86_64_PC32, 2))]

\* Encoder::default(): `.text` is the current section and has its section symbol
EncoderDefault ==
    LET i == [DefaultInstr EXCEPT !.kind = "Section", !.section = N_text,
                                  !.symbol_name = N_text,
                                  !.symbol_type = STT_SECTION,
                                  !.flags = <<"a", "x">>]
    IN [cur |-> N_text, next_id |-> 1,
        instrs |-> <<[name |-> N_text, list |-> <<i>>]>>,
        symbols |-> Put(EmptyMap, N_text, i),
        relas |-> <<>>]

RECURSIVE Encode(_, _)
Encode(enc, prog) ==
    IF prog = <<>> THEN enc
    ELSE Encode(EncodeStmt(enc, Head(prog)), Tail(prog))

\* Elf::default()
DefaultElf ==
    [keep_locals |-> FALSE,
     ehdr |-> [e_shoff |-> 0, e_ehsize |-> 0, e_phentsize |-> 0,
               e_shentsize |-> 0, e_shnum |-> 0, e_shstrndx |-> 0],
     symtab_symbol_indexes |-> EmptyMap,
     local_symbols_count |-> 0,
     rela_symbols |-> <<>>,
     user_defined_section_names |-> <<>>,
     user_defined_section_idx |-> EmptyMap,
     section_name_offs |-> EmptyMap,
     strtab |-> <<>>,
     symtab |-> <<>>,
     rela_section_names |-> <<>>,
     rela |-> EmptyMap,
     shstrtab |-> <<>>,
     section_headers |-> <<>>]

\* no function is being called on its own
NoCall == [fn |-> "none"]

Init ==
    /\ keep_locals \in BOOLEAN
    /\ overflow_checks \in BOOLEAN
    /\ \E prog \in Programs :
          LET enc == Encode(EncoderDefault, prog)
          IN /\ instrs = enc.instrs
             /\ symbols = enc.symbols
             /\ relas = enc.relas
    /\ sections = EmptyMap
    /\ e = DefaultElf
    /\ file = <<>>
    /\ pc = "encoded"
    /\ panicked = ""
    /\ call = NoCall
    /\ ret = NoCall

\* programs of labels and binding / visibility directives
DirectiveStmts ==
    { [op |-> "section", name |-> N_ldata],
      [op |-> "label", name |-> N_f],
      [op |-> "push", name |-> N_f],
      [op |-> "global", name |-> N_f],
      [op |-> "local", name |-> N_f],
      [op |-> "hidden", name |-> N_f],
      [op |-> "internal", name |-> N_f],
      [op |-> "protected", name |-> N_f],
      [op |-> "global", name |-> N_text] }

DirectivePrograms == SeqsUpTo(DirectiveStmts, MaxInstrs)

InitDirectives ==
    /\ keep_locals \in BOOLEAN
    /\ overflow_checks \in BOOLEAN
    /\ \E prog \in DirectivePrograms :
          LET enc == Encode(EncoderDefault, prog)
          IN /\ instrs = enc.instrs
             /\ symbols = enc.symbols
             /\ relas = enc.relas
    /\ sections = EmptyMap
    /\ e = DefaultElf
    /\ file = <<>>
    /\ pc = "encoded"
    /\ panicked = ""
    /\ call = NoCall
    /\ ret = NoCall

---------------------------------------------------------------------------
(* src/src/encoder/addr.rs                                                 *)

\* val |= bit
BitOr(val, bit) == IF (val \div bit) % 2 = 1 THEN val ELSE val + bit

\* -1 stands for the panic "unknown attribute"
RECURSIVE section_flags_from(_, _)
section_flags_from(val, flags) ==
    IF flags = <<>> THEN val
    ELSE LET c == Head(flags)
         IN CASE c = "a" -> section_flags_from(BitOr(val, SHF_ALLOC), Tail(flags))
              [] c = "x" -> section_flags_from(BitOr(val, SHF_EXECINSTR), Tail(flags))
              [] c = "w" -> section_flags_from(BitOr(val, SHF_WRITE), Tail(flags))
              [] OTHER -> -1

section_flags(flags) == section_flags_from(0, flags)

\* change_symbol_binding without the test for a section symbol
change_symbol_binding_SectionsToo(st, instr, binding) ==
    IF instr.symbol_name \notin DOMAIN st.symbols
    THEN [st EXCEPT !.panicked = "undefined symbol"]
    ELSE [st EXCEPT !.symbols[instr.symbol_name].binding = binding]

\* change_symbol_visibility that leaves a visibility already set alone
change_symbol_visibility_FirstWins(st, instr, visibility) ==
    IF instr.symbol_name \notin DOMAIN st.symbols
    THEN [st EXCEPT !.panicked = "undefined symbol"]
    ELSE IF st.symbols[instr.symbol_name].visibility # STV_DEFAULT THEN st
    ELSE [st EXCEPT !.symbols[instr.symbol_name].visibility = visibility]

\* st: [instrs, symbols, relas, sections, panicked]
change_symbol_binding(st, instr, binding) ==
    IF instr.symbol_name \notin DOMAIN st.symbols
    THEN [st EXCEPT !.panicked = "undefined symbol"]
    ELSE IF binding = STB_GLOBAL /\ st.symbols[instr.symbol_name].kind = "Section"
    THEN [st EXCEPT !.panicked = "sections cannot be global"]
    ELSE [st EXCEPT !.symbols[instr.symbol_name].binding = binding]

change_symbol_visibility(st, instr, visibility) ==
    IF instr.symbol_name \notin DOMAIN st.symbols
    THEN [st EXCEPT !.panicked = "undefined symbol"]
    ELSE [st EXCEPT !.symbols[instr.symbol_name].visibility = visibility]

\* `i.addr = section.addr` on the record with identity id
SetAddr(st, s, k, addr) ==
    LET id == st.instrs[s].list[k].id
    IN [st EXCEPT
          !.instrs[s].list[k].addr = addr,
          !.symbols = [n \in DOMAIN @ |->
                         IF @[n].id = id THEN [@[n] EXCEPT !.addr = addr] ELSE @[n]],
          !.relas = [j \in 1..Len(@) |->
                         IF @[j].instr.id = id THEN [@[j] EXCEPT !.instr.addr = addr]
                         ELSE @[j]]]

\* AssignInstr with the cursor advanced before the address is taken
AssignInstr_AddrAfterAdvance(st, s, k) ==
    LET name == st.instrs[s].name
        i == st.instrs[s].list[k]
        adv == [st EXCEPT !.sections[name].addr = @ + Len(i.code),
                          !.sections[name].code = @ \o i.code]
    IN SetAddr(adv, s, k, adv.sections[name].addr)

\* the body of the loop over one section's instructions
AssignInstr(st, s, k) ==
    LET name == st.instrs[s].name
        i == st.instrs[s].list[k]
        dir == CASE i.kind = "Section" ->
                      LET v == section_flags(i.flags)
                      IN IF v = -1 THEN [st EXCEPT !.panicked = "unknown attribute"]
                         ELSE [st EXCEPT !.sections[name].flags = v]
                 [] i.kind = "Global" -> change_symbol_binding(st, i, STB_GLOBAL)
                 [] i.kind = "Local" -> change_symbol_binding(st, i, STB_LOCAL)
                 [] i.kind = "Hidden" -> change_symbol_visibility(st, i, STV_HIDDEN)
                 [] i.kind = "Internal" -> change_symbol_visibility(st, i, STV_INTERNAL)
                 [] i.kind = "Protected" -> change_symbol_visibility(st, i, STV_PROTECTED)
                 [] OTHER -> st
    IN IF dir.panicked # "" THEN dir
       ELSE LET a == SetAddr(dir, s, k, dir.sections[name].addr)
            IN [a EXCEPT !.sections[name].addr = @ + Len(i.code),
                         !.sections[name].code = @ \o i.code]

RECURSIVE AssignSection(_, _, _)
AssignSection(st, s, k) ==
    IF st.panicked # "" \/ k > Len(st.instrs[s].list) THEN st
    ELSE AssignSection(AssignInstr(st, s, k), s, k + 1)

RECURSIVE AssignSections(_, _)
AssignSections(st, s) ==
    IF st.panicked # "" \/ s > Len(st.instrs) THEN st
    ELSE LET name == st.instrs[s].name
             st1 == IF name \in DOMAIN st.sections THEN st
                    ELSE [st EXCEPT !.sections = Put(@, name, DefaultSection)]
         IN AssignSections(AssignSection(st1, s, 1), s + 1)

\* byte k (1..4) of the little-endian u32 `num as u32`
LE32(num) == [k \in 1..4 |-> (num \div (256 ^ (k - 1))) % 256]

\* hex = vec![0u8; 4]; hex.write_u32::<LittleEndian>(num as u32):
\* Write for Vec<u8> appends to the vector
HexOf(num) == <<0, 0, 0, 0>> \o LE32(num)

\* ShouldFix without the test for a global-bound symbol
ShouldFix_GlobalToo(syms, rela) ==
    /\ rela.uses \in DOMAIN syms
    /\ syms[rela.uses].section = rela.instr.section
    /\ ~(~rela.instr.is_jmp_or_call /\ rela.rtype # R_X86_64_PC32)

\* the guards of fix_same_section_relocations
ShouldFix(syms, rela) ==
    /\ rela.uses \in DOMAIN syms
    /\ syms[rela.uses].section = rela.instr.section
    /\ syms[rela.uses].binding # STB_GLOBAL
    /\ ~(~rela.instr.is_jmp_or_call /\ rela.rtype # R_X86_64_PC32)

\* ((symbol.addr - rela.instr.addr) - rela.instr.code.len()) + rela.adjust as usize
RelNum(symbol, rela, checks) ==
    LET d1 == symbol.addr - rela.instr.addr
        d2 == d1 - Len(rela.instr.code)
    IN IF checks /\ (d1 < 0 \/ d2 < 0 \/ (rela.adjust < 0 /\ d2 + rela.adjust >= 0))
       THEN [overflow |-> TRUE, num |-> 0]
       ELSE [overflow |-> FALSE, num |-> d2 + rela.adjust]

\* the body of the loop of fix_same_section_relocations for relocation j
FixRela(st, j, checks) ==
    LET rela == st.relas[j]
    IN IF ~ShouldFix(st.symbols, rela) THEN st
       ELSE LET n == RelNum(st.symbols[rela.uses], rela, checks)
                hex == HexOf(n.num)
                at == rela.instr.addr + rela.offset
            IN IF n.overflow
               THEN [st EXCEPT !.panicked = "attempt to subtract with overflow"]
               ELSE IF rela.instr.section \notin DOMAIN st.sections
               THEN [st EXCEPT !.panicked = "unwrap on None"]
               ELSE IF at + 4 > Len(st.sections[rela.instr.section].code)
               THEN [st EXCEPT !.panicked = "index out of bounds"]
               ELSE [st EXCEPT
                       !.sections[rela.instr.section].code =
                           [b \in 1..Len(@) |->
                               IF b \in (at + 1)..(at + 4) THEN hex[b - at] ELSE @[b]],
                       !.relas[j].is_already_resolved = TRUE]

RECURSIVE fix_same_section_relocations(_, _, _)
fix_same_section_relocations(st, j, checks) ==
    IF st.panicked # "" \/ j > Len(st.relas) THEN st
    ELSE fix_same_section_relocations(FixRela(st, j, checks), j + 1, checks)

assign_addresses(st, checks) ==
    LET a == AssignSections(st, 1)
    IN IF a.panicked # "" THEN a ELSE fix_same_section_relocations(a, 1, checks)

AssignAddresses ==
    /\ pc = "encoded"
    /\ LET r == assign_addresses([instrs |-> instrs, symbols |-> symbols,
                                  relas |-> relas, sections |-> sections,
                                  panicked |-> ""], overflow_checks)
       IN /\ instrs' = r.instrs
          /\ symbols' = r.symbols
          /\ relas' = r.relas
          /\ sections' = r.sections
          /\ panicked' = r.panicked
          /\ pc' = IF r.panicked # "" THEN "panic" ELSE "assigned"
    /\ UNCHANGED <<keep_locals, overflow_checks, e, file,
                   call, ret>>

---------------------------------------------------------------------------
(* src/src/elf/elf64.rs                                                    *)

\* the orders in which a HashMap with key set S may be iterated
RECURSIVE Perms(_)
Perms(S) ==
    IF S = {} THEN {<<>>}
    ELSE UNION {{<<x>> \o p : p \in Perms(S \ {x})} : x \in S}

\* Elf::new, the sections being iterated in the order `order`
RECURSIVE ElfNewFrom(_, _)
ElfNewFrom(el, order) ==
    IF order = <<>> THEN el
    ELSE LET name == Head(order)
         IN ElfNewFrom(
              [el EXCEPT !.user_defined_section_names = Append(@, name),
                         !.user_defined_section_idx =
                             Put(@, name, Cardinality(DOMAIN @) + 1)],
              Tail(order))

ElfNew ==
    /\ pc = "assigned"
    /\ \E order \in Perms(DOMAIN sections) :
          e' = ElfNewFrom([DefaultElf EXCEPT !.keep_locals = keep_locals], order)
    /\ pc' = "new"
    /\ UNCHANGED <<keep_locals, overflow_checks, instrs, symbols, relas,
                   sections, file, panicked,
                   call, ret>>

align_to(n, align) == ((n + align - 1) \div align) * align

add_padding(code) ==
    code \o [i \in 1..(align_to(Len(code), 16) - Len(code)) |-> NUL]

\* the body of the loop of collect_rela_symbols for relocation j
CollectOne(el, j) ==
    LET rela == relas[j]
    IN IF ~Contains(el.rela_symbols, rela.uses) /\ rela.uses \notin DOMAIN symbols
       THEN [el EXCEPT !.rela_symbols = Append(@, rela.uses)]
       ELSE el

RECURSIVE collect_rela_symbols(_, _)
collect_rela_symbols(el, j) ==
    IF j > Len(relas) THEN el
    ELSE collect_rela_symbols(CollectOne(el, j), j + 1)

CollectRelaSymbols ==
    /\ pc = "new"
    /\ e' = collect_rela_symbols(e, 1)
    /\ pc' = "collected"
    /\ UNCHANGED <<keep_locals, overflow_checks, instrs, symbols, relas,
                   sections, file, panicked,
                   call, ret>>

\* IsDroppedLocal that does not look at keep_locals
IsDroppedLocal_IgnoresFlag(el, symbol_name, symbol) ==
    /\ symbol.binding = STB_LOCAL
    /\ starts_with(to_uppercase(symbol_name), <<".", "L">>)

\* the symbols elf_symbol leaves out of the table
IsDroppedLocal(el, symbol_name, symbol) ==
    /\ ~el.keep_locals
    /\ symbol.binding = STB_LOCAL
    /\ starts_with(to_uppercase(symbol_name), <<".", "L">>)

\* (binding << 4) + (symbol_type & 0xf)
StInfo(binding, symbol_type) == binding * 16 + (symbol_type % 16)

\* the body of the loop of elf_symbol; st: [e, off, string, panicked]
ElfSymbolOne(st, symbol_binding, symbol_name) ==
    LET symbol == symbols[symbol_name]
        el == st.e
        off == st.off + Len(st.string) + 1
    IN IF symbol.binding # symbol_binding THEN st
       ELSE IF IsDroppedLocal(el, symbol_name, symbol) THEN st
       ELSE IF symbol.section \notin DOMAIN el.user_defined_section_idx
       THEN [st EXCEPT !.panicked = "key not found"]
       ELSE [st EXCEPT
               !.e.local_symbols_count =
                   IF symbol.binding = STB_LOCAL THEN @ + 1 ELSE @,
               !.e.symtab_symbol_indexes =
                   Put(@, symbol_name, Cardinality(DOMAIN @)),
               !.off = off,
               !.e.symtab = Append(@,
                   [st_name |-> IF symbol.symbol_type = STT_SECTION THEN 0 ELSE off,
                    st_info |-> StInfo(symbol.binding, symbol.symbol_type),
                    st_other |-> symbol.visibility,
                    st_shndx |-> el.user_defined_section_idx[symbol.section],
                    st_value |-> symbol.addr,
                    st_size |-> 0]),
               !.e.strtab = @ \o symbol_name \o <<NUL>>,
               !.string = symbol_name]

RECURSIVE elf_symbol(_, _, _)
elf_symbol(st, symbol_binding, order) ==
    IF st.panicked # "" \/ order = <<>> THEN st
    ELSE elf_symbol(ElfSymbolOne(st, symbol_binding, Head(order)),
                    symbol_binding, Tail(order))

\* the body of the loop of elf_rela_symbol
ElfRelaSymbolOne(st, symbol_name) ==
    LET off == st.off + Len(st.string) + 1
    IN [st EXCEPT
          !.off = off,
          !.e.symtab_symbol_indexes = Put(@, symbol_name, Cardinality(DOMAIN @)),
          !.e.symtab = Append(@,
              [st_name |-> off,
               st_info |-> StInfo(STB_GLOBAL, STT_NOTYPE),
               st_other |-> 0, st_shndx |-> 0, st_value |-> 0, st_size |-> 0]),
          !.e.strtab = @ \o symbol_name \o <<NUL>>,
          !.string = symbol_name]

RECURSIVE elf_rela_symbol(_, _)
elf_rela_symbol(st, k) ==
    IF k > Len(st.e.rela_symbols) THEN st
    ELSE elf_rela_symbol(ElfRelaSymbolOne(st, st.e.rela_symbols[k]), k + 1)

\* NullSymbol that does not count the null row as local
NullSymbol_NotCounted(el) ==
    [el EXCEPT
       !.strtab = Append(@, NUL),
       !.symtab = Append(@,
           [st_name |-> 0, st_info |-> StInfo(STB_LOCAL, STT_NOTYPE),
            st_other |-> 0, st_shndx |-> 0, st_value |-> 0, st_size |-> 0]),
       !.symtab_symbol_indexes = Put(@, N_empty, Cardinality(DOMAIN @))]

\* the null symbol of build_symtab_strtab
NullSymbol(el) ==
    [el EXCEPT
       !.strtab = Append(@, NUL),
       !.symtab = Append(@,
           [st_name |-> 0, st_info |-> StInfo(STB_LOCAL, STT_NOTYPE),
            st_other |-> 0, st_shndx |-> 0, st_value |-> 0, st_size |-> 0]),
       !.symtab_symbol_indexes = Put(@, N_empty, Cardinality(DOMAIN @)),
       !.local_symbols_count = @ + 1]

\* build_symtab_strtab with the global symbols before the synthesized ones
build_symtab_strtab_GlobalFirst(el, order) ==
    LET st0 == [e |-> NullSymbol(el), off |-> 0, string |-> N_empty, panicked |-> ""]
        st1 == elf_symbol(st0, STB_LOCAL, order)
        st2 == IF st1.panicked # "" THEN st1 ELSE elf_symbol(st1, STB_GLOBAL, order)
        st3 == IF st2.panicked # "" THEN st2 ELSE elf_rela_symbol(st2, 1)
    IN IF st3.panicked # "" THEN st3
       ELSE [st3 EXCEPT !.e.strtab = add_padding(@)]

\* build_symtab_strtab, the symbol table being iterated in the order `order`
build_symtab_strtab(el, order) ==
    LET st0 == [e |-> NullSymbol(el), off |-> 0, string |-> N_empty, panicked |-> ""]
        st1 == elf_symbol(st0, STB_LOCAL, order)
        st2 == IF st1.panicked # "" THEN st1 ELSE elf_rela_symbol(st1, 1)
        st3 == IF st2.panicked # "" THEN st2 ELSE elf_symbol(st2, STB_GLOBAL, order)
    IN IF st3.panicked # "" THEN st3
       ELSE [st3 EXCEPT !.e.strtab = add_padding(@)]

BuildSymtabStrtab ==
    /\ pc = "collected"
    /\ \E order \in Perms(DOMAIN symbols) :
          LET r == build_symtab_strtab(e, order)
          IN /\ e' = r.e
             /\ panicked' = r.panicked
             /\ pc' = IF r.panicked # "" THEN "panic" ELSE "symtab"
    /\ UNCHANGED <<keep_locals, overflow_checks, instrs, symbols, relas,
                   sections, file,
                   call, ret>>

\* the r_addend rela_text_users starts from
BaseAddend(r, checks) ==
    IF r.rtype \in {R_X86_64_32S, R_X86_64_32, R_X86_64_64, R_X86_64_16, R_X86_64_8}
    THEN [overflow |-> FALSE, val |-> 0]
    ELSE IF r.rtype = R_X86_64_PC32
    THEN [overflow |-> checks /\ r.offset < Len(r.instr.code),
          val |-> r.offset - Len(r.instr.code)]
    ELSE [overflow |-> FALSE, val |-> -4]

\* IndexKey that takes the symbol's own row for every binding
IndexKey_OwnRow(r) == r.uses

\* the name whose symtab_symbol_indexes entry the relocation entry carries
IndexKey(r) ==
    IF r.uses \in DOMAIN symbols /\ symbols[r.uses].binding # STB_GLOBAL
    THEN symbols[r.uses].section
    ELSE r.uses

\* SkipRela that skips nothing
SkipRela_Never(r) == FALSE

\* `continue` of rela_text_users
SkipRela(r) == r.is_already_resolved

\* the body of the loop of rela_text_users; st: [e, panicked]
RelaTextOne(st, r, checks) ==
    LET base == BaseAddend(r, checks)
        el == st.e
        key == IndexKey(r)
        r_addend == IF r.uses \in DOMAIN symbols /\ symbols[r.uses].binding # STB_GLOBAL
                    THEN base.val + symbols[r.uses].addr
                    ELSE base.val
        rela_section_name == N_rela \o r.instr.section
    IN IF base.overflow
       THEN [st EXCEPT !.panicked = "attempt to subtract with overflow"]
       ELSE IF SkipRela(r) THEN st
       ELSE IF key \notin DOMAIN el.symtab_symbol_indexes
       THEN [st EXCEPT !.panicked = "key not found"]
       ELSE [st EXCEPT
               !.e.rela = Put(@, rela_section_name,
                   Append(IF rela_section_name \in DOMAIN @ THEN @[rela_section_name]
                          ELSE <<>>,
                          [r_offset |-> r.instr.addr + r.offset,
                           r_info |-> [sym |-> el.symtab_symbol_indexes[key],
                                       type |-> r.rtype],
                           r_addend |-> r_addend + r.adjust])),
               !.e.rela_section_names =
                   IF Contains(@, rela_section_name) THEN @
                   ELSE Append(@, rela_section_name)]

RECURSIVE rela_text_users(_, _, _)
rela_text_users(st, j, checks) ==
    IF st.panicked # "" \/ j > Len(relas) THEN st
    ELSE rela_text_users(RelaTextOne(st, relas[j], checks), j + 1, checks)

\* RelaTextUsers that also marks every pending relocation resolved
RelaTextUsers_MarksResolved ==
    /\ pc = "symtab"
    /\ LET r == rela_text_users([e |-> e, panicked |-> ""], 1, overflow_checks)
       IN /\ e' = r.e
          /\ panicked' = r.panicked
          /\ pc' = IF r.panicked # "" THEN "panic" ELSE "rela"
    /\ relas' = [j \in 1..Len(relas) |-> [relas[j] EXCEPT !.is_already_resolved = TRUE]]
    /\ UNCHANGED <<keep_locals, overflow_checks, instrs, symbols,
                   sections, file, call, ret>>

RelaTextUsers ==
    /\ pc = "symtab"
    /\ LET r == rela_text_users([e |-> e, panicked |-> ""], 1, overflow_checks)
       IN /\ e' = r.e
          /\ panicked' = r.panicked
          /\ pc' = IF r.panicked # "" THEN "panic" ELSE "rela"
    /\ UNCHANGED <<keep_locals, overflow_checks, instrs, symbols, relas,
                   sections, file,
                   call, ret>>

\* one name entered into .shstrtab; st: [e, name_offs]
AddSectionName(st, name) ==
    [st EXCEPT !.e.section_name_offs = Put(@, name, st.name_offs),
               !.name_offs = @ + Len(name) + 1,
               !.e.shstrtab = @ \o name \o <<NUL>>]

RECURSIVE AddSectionNames(_, _)
AddSectionNames(st, names) ==
    IF names = <<>> THEN st
    ELSE AddSectionNames(AddSectionName(st, Head(names)), Tail(names))

\* build_shstrtab, the keys of `rela` being iterated in the order `keys`
build_shstrtab(el, keys) ==
    LET st0 == [e |-> [el EXCEPT !.shstrtab = Append(@, NUL),
                                 !.section_name_offs = Put(@, N_empty, 0)],
                name_offs |-> 1]
        st1 == AddSectionNames(st0, el.user_defined_section_names)
        st2 == AddSectionNames(st1, <<N_strtab, N_symtab, N_shstrtab>>)
        st3 == AddSectionNames(st2, keys)
    IN [st3.e EXCEPT !.shstrtab = add_padding(@)]

BuildShstrtab ==
    /\ pc = "rela"
    /\ \E keys \in Perms(DOMAIN e.rela) : e' = build_shstrtab(e, keys)
    /\ pc' = "shstrtab"
    /\ UNCHANGED <<keep_locals, overflow_checks, instrs, symbols, relas,
                   sections, file, panicked,
                   call, ret>>

\* Elf64Shdr::default()
DefaultShdr ==
    [sh_name |-> 0, sh_type |-> SHT_NULL, sh_flags |-> 0, sh_addr |-> 0,
     sh_offset |-> 0, sh_size |-> 0, sh_link |-> 0, sh_info |-> 0,
     sh_addralign |-> 0, sh_entsize |-> 0]

\* st: [e, section_offs, section_idx, panicked]
UserSectionHeader(st, name) ==
    IF name \notin DOMAIN sections
    THEN [st EXCEPT !.panicked = "unkown section"]
    ELSE [st EXCEPT
            !.e.section_headers = Append(@,
                [DefaultShdr EXCEPT !.sh_name = st.e.section_name_offs[name],
                                    !.sh_type = SHT_PROGBITS,
                                    !.sh_flags = sections[name].flags,
                                    !.sh_offset = st.section_offs,
                                    !.sh_size = Len(sections[name].code),
                                    !.sh_addralign = 1]),
            !.section_offs = @ + Len(sections[name].code),
            !.section_idx = Put(@, name, Cardinality(DOMAIN @))]

RECURSIVE UserSectionHeaders(_, _)
UserSectionHeaders(st, names) ==
    IF st.panicked # "" \/ names = <<>> THEN st
    ELSE UserSectionHeaders(UserSectionHeader(st, Head(names)), Tail(names))

\* the header of .strtab: section_offs is left where it was
StrtabHeader(st) ==
    LET idx == Put(st.section_idx, N_strtab, Cardinality(DOMAIN st.section_idx))
    IN [st EXCEPT
          !.section_idx = idx,
          !.e.section_headers = Append(@,
              [DefaultShdr EXCEPT !.sh_name = st.e.section_name_offs[N_strtab],
                                  !.sh_type = SHT_STRTAB,
                                  !.sh_offset = st.section_offs,
                                  !.sh_size = Len(st.e.strtab),
                                  !.sh_addralign = 1])]

\* symtab_size = mem::size_of::<Elf64Sym>() * self.strtab.len()
SymtabSize(el) == SizeOfSym * Len(el.strtab)

\* the header of .symtab: section_offs is left where it was
SymtabHeader(st) ==
    LET idx == Put(st.section_idx, N_symtab, Cardinality(DOMAIN st.section_idx))
    IN [st EXCEPT
          !.section_idx = idx,
          !.e.section_headers = Append(@,
              [DefaultShdr EXCEPT !.sh_name = st.e.section_name_offs[N_symtab],
                                  !.sh_type = SHT_SYMTAB,
                                  !.sh_offset = st.section_offs,
                                  !.sh_size = SymtabSize(st.e),
                                  !.sh_link = idx[N_strtab],
                                  !.sh_info = st.e.local_symbols_count,
                                  !.sh_addralign = 8,
                                  !.sh_entsize = SizeOfSym])]

\* RelaHeader with sh_link pointing at .strtab
RelaHeader_LinksStrtab(st, name) ==
    LET size == Len(st.e.rela[name]) * SizeOfRela
        target == SubSeq(name, 6, Len(name))
    IN IF name \notin DOMAIN st.e.section_name_offs \/ target \notin DOMAIN st.section_idx
       THEN [st EXCEPT !.panicked = "key not found"]
       ELSE [st EXCEPT
               !.e.section_headers = Append(@,
                   [sh_name |-> st.e.section_name_offs[name],
                    sh_type |-> SHT_RELA,
                    sh_flags |-> SHF_INFO_LINK,
                    sh_addr |-> 0,
                    sh_offset |-> st.section_offs,
                    sh_size |-> size,
                    sh_link |-> st.section_idx[N_strtab],
                    sh_info |-> st.section_idx[target],
                    sh_addralign |-> 8,
                    sh_entsize |-> SizeOfRela]),
               !.section_offs = @ + size]

RelaHeader(st, name) ==
    LET size == Len(st.e.rela[name]) * SizeOfRela
        target == SubSeq(name, 6, Len(name))
    IN IF name \notin DOMAIN st.e.section_name_offs \/ target \notin DOMAIN st.section_idx
       THEN [st EXCEPT !.panicked = "key not found"]
       ELSE [st EXCEPT
               !.e.section_headers = Append(@,
                   [sh_name |-> st.e.section_name_offs[name],
                    sh_type |-> SHT_RELA,
                    sh_flags |-> SHF_INFO_LINK,
                    sh_addr |-> 0,
                    sh_offset |-> st.section_offs,
                    sh_size |-> size,
                    sh_link |-> st.section_idx[N_symtab],
                    sh_info |-> st.section_idx[target],
                    sh_addralign |-> 8,
                    sh_entsize |-> SizeOfRela]),
               !.section_offs = @ + size]

RECURSIVE RelaHeaders(_, _)
RelaHeaders(st, names) ==
    IF st.panicked # "" \/ names = <<>> THEN st
    ELSE RelaHeaders(RelaHeader(st, Head(names)), Tail(names))

\* ShstrtabAndEhdr with e_shstrndx one past the last header
ShstrtabAndEhdr_IndexIsCount(st) ==
    LET headers == Append(st.e.section_headers,
                       [DefaultShdr EXCEPT !.sh_name = st.e.section_name_offs[N_shstrtab],
                                           !.sh_type = SHT_STRTAB,
                                           !.sh_offset = st.section_offs,
                                           !.sh_size = Len(st.e.shstrtab),
                                           !.sh_addralign = 1])
    IN [st EXCEPT
          !.e.section_headers = headers,
          !.e.ehdr = [e_shoff |-> st.section_offs + Len(st.e.shstrtab),
                      e_ehsize |-> SizeOfEhdr,
                      e_phentsize |-> SizeOfPhdr,
                      e_shentsize |-> SizeOfShdr,
                      e_shnum |-> Len(headers),
                      e_shstrndx |-> Len(headers)]]

\* the header of .shstrtab and the file header
ShstrtabAndEhdr(st) ==
    LET headers == Append(st.e.section_headers,
                       [DefaultShdr EXCEPT !.sh_name = st.e.section_name_offs[N_shstrtab],
                                           !.sh_type = SHT_STRTAB,
                                           !.sh_offset = st.section_offs,
                                           !.sh_size = Len(st.e.shstrtab),
                                           !.sh_addralign = 1])
    IN [st EXCEPT
          !.e.section_headers = headers,
          !.e.ehdr = [e_shoff |-> st.section_offs + Len(st.e.shstrtab),
                      e_ehsize |-> SizeOfEhdr,
                      e_phentsize |-> SizeOfPhdr,
                      e_shentsize |-> SizeOfShdr,
                      e_shnum |-> Len(headers),
                      e_shstrndx |-> Len(headers) - 1]]

build_headers(el) ==
    LET st0 == [e |-> [el EXCEPT !.section_headers = Append(@,
                           [DefaultShdr EXCEPT !.sh_name = el.section_name_offs[N_empty]])],
                section_offs |-> SizeOfEhdr,
                section_idx |-> Put(EmptyMap, N_empty, 0),
                panicked |-> ""]
        st1 == UserSectionHeaders(st0, el.user_defined_section_names)
        st2 == IF st1.panicked # "" THEN st1 ELSE SymtabHeader(StrtabHeader(st1))
        st3 == IF st2.panicked # "" THEN st2 ELSE RelaHeaders(st2, el.rela_section_names)
    IN IF st3.panicked # "" THEN st3 ELSE ShstrtabAndEhdr(st3)

BuildHeaders ==
    /\ pc = "shstrtab"
    /\ LET r == build_headers(e)
       IN /\ e' = r.e
          /\ panicked' = r.panicked
          /\ pc' = IF r.panicked # "" THEN "panic" ELSE "headers"
    /\ UNCHANGED <<keep_locals, overflow_checks, instrs, symbols, relas,
                   sections, file,
                   call, ret>>

\* the number of bytes of the slice any_as_u8_slice makes of a value
any_as_u8_slice_len(what) ==
    CASE what = "Elf64Ehdr" -> SizeOfEhdr
      [] what = "Elf64Sym" -> SizeOfSym
      [] what = "Elf64Rela" -> SizeOfRela
      [] what = "Elf64Shdr" -> SizeOfShdr

RECURSIVE FileLen(_)
FileLen(f) == IF f = <<>> THEN 0 ELSE f[Len(f)].offset + f[Len(f)].size

\* fp.write_all of `size` bytes that belong to `what`
write_all(f, what, size) ==
    Append(f, [what |-> what, offset |-> FileLen(f), size |-> size])

RECURSIVE WriteUserSections(_, _)
WriteUserSections(f, names) ==
    IF names = <<>> THEN f
    ELSE WriteUserSections(write_all(f, Head(names), Len(sections[Head(names)].code)),
                           Tail(names))

RECURSIVE WriteRows(_, _, _, _)
WriteRows(f, what, n, size) ==
    IF n = 0 THEN f ELSE WriteRows(write_all(f, what, size), what, n - 1, size)

RECURSIVE WriteRelaSections(_, _, _)
WriteRelaSections(f, el, names) ==
    IF names = <<>> THEN f
    ELSE LET name == Head(names)
             g == IF name \in DOMAIN el.rela
                  THEN WriteRows(f, name, Len(el.rela[name]),
                                 any_as_u8_slice_len("Elf64Rela"))
                  ELSE f
         IN WriteRelaSections(g, el, Tail(names))

write_elf(el) ==
    LET f1 == write_all(<<>>, <<"Ehdr">>, any_as_u8_slice_len("Elf64Ehdr"))
        f2 == WriteUserSections(f1, el.user_defined_section_names)
        f3 == write_all(f2, N_strtab, Len(el.strtab))
        f4 == WriteRows(f3, N_symtab, Len(el.symtab), any_as_u8_slice_len("Elf64Sym"))
        f5 == WriteRelaSections(f4, el, el.rela_section_names)
        f6 == write_all(f5, N_shstrtab, Len(el.shstrtab))
    IN WriteRows(f6, <<"Shdr">>, Len(el.section_headers), any_as_u8_slice_len("Elf64Shdr"))

WriteElf ==
    /\ pc = "headers"
    /\ file' = write_elf(e)
    /\ pc' = "written"
    /\ UNCHANGED <<keep_locals, overflow_checks, instrs, symbols, relas,
                   sections, e, panicked,
                   call, ret>>

Next ==
    \/ AssignAddresses
    \/ ElfNew
    \/ CollectRelaSymbols
    \/ BuildSymtabStrtab
    \/ RelaTextUsers
    \/ BuildShstrtab
    \/ BuildHeaders
    \/ WriteElf

Spec == Init /\ [][Next]_vars

\* the same pipeline run on the directive programs
SpecDirectives == InitDirectives /\ [][Next]_vars

---------------------------------------------------------------------------
(* src/src/encoder/arch/x86_64/registers.rs                                *)

Register(lit, base_offset, size, rex_required) ==
    [lit |-> lit, size |-> size, base_offset |-> base_offset,
     rex_required |-> rex_required]

\* Register::default()
DefaultRegister == Register(<<>>, 0, "Unknown", FALSE)

GENERAL_REGISTERS ==
    <<
       Register(<<"R", "A", "X">>, 0, "Quad", FALSE),
       Register(<<"R", "C", "X">>, 1, "Quad", FALSE),
       Register(<<"R", "D", "X">>, 2, "Quad", FALSE),
       Register(<<"R", "B", "X">>, 3, "Quad", FALSE),
       Register(<<"R", "S", "P">>, 4, "Quad", FALSE),
       Register(<<"R", "B", "P">>, 5, "Quad", FALSE),
       Register(<<"R", "S", "I">>, 6, "Quad", FALSE),
       Register(<<"R", "D", "I">>, 7, "Quad", FALSE),
       Register(<<"R", "8">>, 8, "Quad", FALSE),
       Register(<<"R", "9">>, 9, "Quad", FALSE),
       Register(<<"R", "1", "0">>, 10, "Quad", FALSE),
       Register(<<"R", "1", "1">>, 11, "Quad", FALSE),
       Register(<<"R", "1", "2">>, 12, "Quad", FALSE),
       Register(<<"R", "1", "3">>, 13, "Quad", FALSE),
       Register(<<"R", "1", "4">>, 14, "Quad", FALSE),
       Register(<<"R", "1", "5">>, 15, "Quad", FALSE),
       Register(<<"E", "A", "X">>, 0, "Long", FALSE),
       Register(<<"E", "C", "X">>, 1, "Long", FALSE),
       Register(<<"E", "D", "X">>, 2, "Long", FALSE),
       Register(<<"E", "B", "X">>, 3, "Long", FALSE),
       Register(<<"E", "S", "P">>, 4, "Long", FALSE),
       Register(<<"E", "B", "P">>, 5, "Long", FALSE),
       Register(<<"E", "S", "I">>, 6, "Long", FALSE),
       Register(<<"E", "D", "I">>, 7, "Long", FALSE),
       Register(<<"R", "8", "D">>, 8, "Long", FALSE),
       Register(<<"R", "9", "D">>, 9, "Long", FALSE),
       Register(<<"R", "1", "0", "D">>, 10, "Long", FALSE),
       Register(<<"R", "1", "1", "D">>, 11, "Long", FALSE),
       Register(<<"R", "1", "2", "D">>, 12, "Long", FALSE),
       Register(<<"R", "1", "3", "D">>, 13, "Long", FALSE),
       Register(<<"R", "1", "4", "D">>, 14, "Long", FALSE),
       Register(<<"R", "1", "5", "D">>, 15, "Long", FALSE),
       Register(<<"A", "X">>, 0, "Word", FALSE),
       Register(<<"C", "X">>, 1, "Word", FALSE),
       Register(<<"D", "X">>, 2, "Word", FALSE),
       Register(<<"B", "X">>, 3, "Word", FALSE),
       Register(<<"S", "P">>, 4, "Word", FALSE),
       Register(<<"B", "P">>, 5, "Word", FALSE),
       Register(<<"S", "I">>, 6, "Word", FALSE),
       Register(<<"D", "I">>, 7, "Word", FALSE),
       Register(<<"R", "8", "W">>, 8, "Word", FALSE),
       Register(<<"R", "9", "W">>, 9, "Word", FALSE),
       Register(<<"R", "1", "0", "W">>, 10, "Word", FALSE),
       Register(<<"R", "1", "1", "W">>, 11, "Word", FALSE),
       Register(<<"R", "1", "2", "W">>, 12, "Word", FALSE),
       Register(<<"R", "1", "3", "W">>, 13, "Word", FALSE),
       Register(<<"R", "1", "4", "W">>, 14, "Word", FALSE),
       Register(<<"R", "1", "5", "W">>, 15, "Word", FALSE),
       Register(<<"A", "L">>, 0, "Byte", FALSE),
       Register(<<"C", "L">>, 1, "Byte", FALSE),
       Register(<<"D", "L">>, 2, "Byte", FALSE),
       Register(<<"B", "L">>, 3, "Byte", FALSE),
       Register(<<"A", "H">>, 4, "Byte", FALSE),
       Register(<<"B", "P">>, 5, "Byte", FALSE),
       Register(<<"C", "H">>, 5, "Byte", FALSE),
       Register(<<"D", "H">>, 6, "Byte", FALSE),
       Register(<<"B", "H">>, 7, "Byte", FALSE),
       Register(<<"S", "P", "L">>, 4, "Byte", TRUE),
       Register(<<"B", "P", "L">>, 5, "Byte", TRUE),
       Register(<<"S", "I", "L">>, 6, "Byte", TRUE),
       Register(<<"D", "I", "L">>, 7, "Byte", TRUE),
       Register(<<"R", "8", "B">>, 8, "Byte", FALSE),
       Register(<<"R", "9", "B">>, 9, "Byte", FALSE),
       Register(<<"R", "1", "0", "B">>, 10, "Byte", FALSE),
       Register(<<"R", "1", "1", "B">>, 11, "Byte", FALSE),
       Register(<<"R", "1", "2", "B">>, 12, "Byte", FALSE),
       Register(<<"R", "1", "3", "B">>, 13, "Byte", FALSE),
       Register(<<"R", "1", "4", "B">>, 14, "Byte", FALSE),
       Register(<<"R", "1", "5", "B">>, 15, "Byte", FALSE),
       Register(<<"R", "I", "P">>, 0, "Quad", FALSE),
       Register(<<"E", "I", "P">>, 0, "Long", FALSE),
       Register(<<"I", "P">>, 0, "Word", FALSE)
    >>

\* stringify!(N) for the sixteen XMM registers
Stringify(n) ==
    IF n < 10 THEN <<DigitChar[n + 1]>> ELSE <<DigitChar[2], DigitChar[n - 10 + 1]>>

XMM_REGISTERS ==
    [k \in 1..16 |-> Register(<<"X", "M", "M">> \o Stringify(k - 1), k - 1, "Unknown", FALSE)]

\* into_iter().find(|(reg, _)| reg == &reg_name): the first entry of that name
Find(table, reg_name) ==
    LET hits == {k \in 1..Len(table) : table[k].lit = reg_name}
    IN IF hits = {} THEN 0 ELSE CHOOSE k \in hits : \A h \in hits : k <= h

get_reg_info_by(reg_name) ==
    LET k == Find(GENERAL_REGISTERS, reg_name)
    IN IF k = 0 THEN [tag |-> "Err", loc |-> 0,
                      msg |-> "No such general purpose register could be found."]
       ELSE [tag |-> "Ok", val |-> GENERAL_REGISTERS[k]]

get_xmm_by(reg_name) ==
    LET k == Find(XMM_REGISTERS, reg_name)
    IN IF k = 0 THEN [tag |-> "Err", loc |-> 0,
                      msg |-> "Not such XMM register could be found."]
       ELSE [tag |-> "Ok", val |-> XMM_REGISTERS[k]]

---------------------------------------------------------------------------
(* src/src/encoder/mod.rs: the REX and size prefixes                       *)

\* bin_const::OPERAND_SIZE_PREFIX16
OPERAND_SIZE_PREFIX16 == 102

\* 64 | (w << 3) | (r << 2) | (x << 1) | b, for w, r, x, b in 0..1
rex(w, r, x, b) == 64 + w * 8 + r * 4 + x * 2 + b

\* the condition under which add_prefix pushes the REX byte
NeedsRex(w, r, x, b, reg_r, reg_i, reg_b) ==
    \/ w # 0 \/ r # 0 \/ b # 0 \/ x # 0
    \/ reg_r.rex_required \/ reg_b.rex_required

\* Encoder::add_prefix on the code of current_instr
add_prefix(code, reg_r, reg_i, reg_b, sizes) ==
    LET w == IF Contains(sizes, "Quad") THEN 1 ELSE 0
        r == IF reg_r.base_offset >= 8 THEN 1 ELSE 0
        x == IF reg_i.base_offset >= 8 THEN 1 ELSE 0
        b == IF reg_b.base_offset >= 8 THEN 1 ELSE 0
        c1 == IF Contains(sizes, "Word") THEN Append(code, OPERAND_SIZE_PREFIX16) ELSE code
        c2 == IF Contains(sizes, "Single") THEN Append(c1, 243) ELSE c1
        c3 == IF Contains(sizes, "Double") THEN Append(c2, 242) ELSE c2
    IN IF NeedsRex(w, r, x, b, reg_r, reg_i, reg_b)
       THEN Append(c3, rex(w, r, x, b))
       ELSE c3

\* the longest size list drawn
MaxSizes == 2

\* the registers drawn as arguments: Register::default() and table entries
PrefixRegisterNames ==
    { <<"R", "A", "X">>, <<"R", "8">>, <<"E", "D", "I">>, <<"A", "L">>,
      <<"A", "H">>, <<"S", "P", "L">>, <<"S", "I", "L">>, <<"R", "9", "B">> }

PrefixRegisters ==
    {DefaultRegister} \cup {get_reg_info_by(n).val : n \in PrefixRegisterNames}

SizeLists == SeqsUpTo({"Byte", "Long", "Quad", "Word", "Single"}, MaxSizes)

\* the state of the pipeline while a function is called on its own
Idle(at) ==
    /\ keep_locals = FALSE
    /\ overflow_checks = FALSE
    /\ instrs = <<>>
    /\ symbols = EmptyMap
    /\ relas = <<>>
    /\ sections = EmptyMap
    /\ e = DefaultElf
    /\ file = <<>>
    /\ pc = at
    /\ panicked = ""

pipeline == <<keep_locals, overflow_checks, instrs, symbols, relas, sections,
              e, file, pc, panicked>>

InitPrefix ==
    /\ Idle("prefix")
    /\ \E reg_r \in PrefixRegisters, reg_i \in PrefixRegisters,
          reg_b \in PrefixRegisters, sizes \in SizeLists :
          call = [fn |-> "none", reg_r |-> reg_r, reg_i |-> reg_i,
                  reg_b |-> reg_b, sizes |-> sizes]
    /\ ret = NoCall

AddPrefix ==
    /\ pc = "prefix"
    /\ call.fn = "none"
    /\ call' = [call EXCEPT !.fn = "add_prefix"]
    /\ ret' = [fn |-> "add_prefix",
               current_instr |->
                   [DefaultInstr EXCEPT !.code =
                       add_prefix(@, call.reg_r, call.reg_i, call.reg_b, call.sizes)]]
    /\ UNCHANGED pipeline

NextPrefix == AddPrefix

SpecPrefix == InitPrefix /\ [][NextPrefix]_vars

---------------------------------------------------------------------------
(* src/src/encoder/mod.rs: the operand parser                              *)
(*                                                                         *)
(* A token is [kind, val, loc]; `index` is the 0-based cursor into the     *)
(* token vector.  A function returns [tag |-> "Ok", val, index], or        *)
(* [tag |-> "Err", loc, index] where loc is 0 for an error made without    *)
(* with_location, or [tag |-> "Panic", msg, index] when it aborts the      *)
(* process; index is the value the caller's cursor is left with.           *)

Ok(val, index) == [tag |-> "Ok", val |-> val, index |-> index]
Err(loc, index) == [tag |-> "Err", loc |-> loc, index |-> index]
Panic(msg, index) == [tag |-> "Panic", msg |-> msg, index |-> index]

\* Expr
ExprIdent(s) == [expr |-> "Ident", val |-> s]
ExprNumber(s) == [expr |-> "Number", val |-> s]
ExprNeg(x) == [expr |-> "Neg", val |-> x]
ExprBinop(left_hs, right_hs, op) ==
    [expr |-> "Binop", left_hs |-> left_hs, right_hs |-> right_hs, op |-> op]
ExprImmediate(x) == [expr |-> "Immediate", val |-> x]
ExprIndirection(disp, base, index, scale) ==
    [expr |-> "Indirection", disp |-> disp, base |-> base, index |-> index,
     scale |-> scale, has_base |-> FALSE, has_index_scale |-> FALSE]
ExprRegister(r) == [expr |-> "Register", val |-> r]
ExprXmm(r) == [expr |-> "Xmm", val |-> r]
ExprStar(x) == [expr |-> "Star", val |-> x]

\* Option
None == [some |-> FALSE]
Some(x) == [some |-> TRUE, val |-> x]

\* tokens.get(n) is None: building the error reads tokens[n].loc
peek_n(n, tokens) ==
    IF n < Len(tokens) THEN Ok(tokens[n + 1], n)
    ELSE Panic("index out of bounds", n)

peek_next(index, tokens) == peek_n(index + 1, tokens)

expect(token_kind, index, tokens) ==
    LET t == peek_next(index, tokens)
    IN IF t.tag # "Ok" THEN t
       ELSE IF token_kind = t.val.kind THEN Ok(<<>>, index + 1)
       ELSE Err(t.val.loc, index + 1)

parse_register(index, tokens) ==
    LET cur == peek_n(index, tokens)
        next == peek_n(index + 1, tokens)
    IN IF cur.tag # "Ok" THEN cur
       ELSE IF next.tag = "Panic" THEN next
       ELSE IF next.tag = "Err" THEN Err(cur.val.loc, index + 1)
       ELSE IF next.val.kind = "Ident"
       THEN LET reg_name == to_uppercase(next.val.val)
                xmm == get_xmm_by(reg_name)
                reg == get_reg_info_by(reg_name)
            IN IF xmm.tag = "Ok" THEN Ok(ExprXmm(xmm.val), index + 1)
               ELSE IF reg.tag = "Ok" THEN Ok(ExprRegister(reg.val), index + 1)
               ELSE Err(reg.loc, index + 1)
       ELSE Err(cur.val.loc, index + 1)

RECURSIVE parse_factor(_, _)
parse_factor(index, tokens) ==
    LET cur == peek_n(index, tokens)
    IN IF cur.tag # "Ok" THEN cur
       ELSE CASE cur.val.kind = "Number" -> Ok(ExprNumber(cur.val.val), index)
              [] cur.val.kind = "Ident" -> Ok(ExprIdent(cur.val.val), index)
              [] cur.val.kind = "Minus" ->
                   LET f == parse_factor(index + 1, tokens)
                   IN IF f.tag = "Ok" THEN Ok(ExprNeg(f.val), f.index) ELSE f
              [] OTHER -> Err(cur.val.loc, index)

RECURSIVE parse_expr(_, _)
parse_expr(index, tokens) ==
    LET left_hs == parse_factor(index, tokens)
    IN IF left_hs.tag # "Ok" THEN left_hs
       ELSE LET cur == peek_n(left_hs.index, tokens)
            IN IF cur.tag # "Ok" THEN cur
               ELSE IF cur.val.kind \in {"Div", "Minus", "Mul", "Plus"}
               THEN LET right_hs == parse_expr(left_hs.index + 1, tokens)
                    IN IF right_hs.tag = "Ok"
                       THEN Ok(ExprBinop(left_hs.val, right_hs.val, cur.val.kind),
                               right_hs.index)
                       ELSE right_hs
               ELSE Err(cur.val.loc, left_hs.index)

\* parse_indirect after expect(TokenKind::RParen, ..): Expr::Indirection
IndirectClose(expr, base, idx, scale, close) ==
    IF close.tag # "Ok" THEN close
    ELSE Ok(ExprIndirection(Some(expr), Some(base.val), Some(idx.val), Some(scale.val)),
            close.index)

\* parse_indirect after the scale is read, or defaulted to 1
IndirectScale(expr, base, idx, scale, tokens) ==
    IF scale.tag # "Ok" THEN scale
    ELSE IndirectClose(expr, base, idx, scale, expect("RParen", scale.index, tokens))

\* parse_indirect after peek_next behind the index register
IndirectNext(expr, base, idx, next, tokens) ==
    IF next.tag # "Ok" THEN next
    ELSE IndirectScale(expr, base, idx,
                       IF next.val.kind = "Comma"
                       THEN parse_expr(idx.index + 1, tokens)
                       ELSE Ok(ExprNumber(<<"1">>), idx.index + 1),
                       tokens)

\* parse_indirect after the parse_register of the index
IndirectIndex(expr, base, idx, tokens) ==
    IF idx.tag # "Ok" THEN idx
    ELSE IndirectNext(expr, base, idx, peek_next(idx.index, tokens), tokens)

\* parse_indirect after the parse_register of the base
IndirectBase(expr, base, tokens) ==
    IF base.tag # "Ok" THEN base
    ELSE IndirectIndex(expr, base, parse_register(base.index, tokens), tokens)

\* the arm of parse_indirect taken after `(` `,`
IndirectWithBase(expr, index, tokens) ==
    IndirectBase(expr, parse_register(index, tokens), tokens)

parse_indirect(index, tokens) ==
    LET first == peek_n(index, tokens)
    IN IF first.tag # "Ok" THEN first
       ELSE LET expr == IF first.val.kind = "LParen" THEN Ok(ExprNumber(<<"0">>), index)
                        ELSE parse_expr(index, tokens)
            IN IF expr.tag # "Ok" THEN expr
               ELSE IF first.val.kind # "LParen" THEN expr
               ELSE LET next == peek_next(expr.index, tokens)
                    IN IF next.tag # "Ok" THEN next
                       ELSE IF next.val.kind = "Comma"
                       THEN IndirectWithBase(expr.val, expr.index + 1, tokens)
                       ELSE Ok(ExprIndirection(Some(expr.val), None, None, None),
                               expr.index + 1)

parse_operand(index, tokens) ==
    LET cur == peek_n(index, tokens)
    IN IF cur.tag # "Ok" THEN cur
       ELSE CASE cur.val.kind = "Dolor" ->
                   LET x == parse_expr(index + 1, tokens)
                   IN IF x.tag = "Ok" THEN Ok(ExprImmediate(x.val), x.index) ELSE x
              [] cur.val.kind = "Percent" -> parse_register(index, tokens)
              [] cur.val.kind = "Mul" ->
                   LET r == parse_register(index, tokens)
                   IN IF r.tag = "Ok" THEN Ok(ExprStar(r.val), r.index) ELSE r
              [] cur.val.kind = "LParen" -> parse_indirect(index, tokens)
              [] OTHER -> Err(cur.val.loc, index)

\* the longest token vector drawn
MaxTokens == 3

\* the tokens drawn, without their locations
TokenAlphabet ==
    { [kind |-> "Ident", val |-> <<"r", "a", "x">>],
      [kind |-> "Ident", val |-> <<"f">>],
      [kind |-> "Number", val |-> <<"1">>],
      [kind |-> "Minus", val |-> <<>>],
      [kind |-> "Plus", val |-> <<>>],
      [kind |-> "Mul", val |-> <<>>],
      [kind |-> "Comma", val |-> <<>>],
      [kind |-> "LParen", val |-> <<>>],
      [kind |-> "RParen", val |-> <<>>],
      [kind |-> "Dolor", val |-> <<>>],
      [kind |-> "Percent", val |-> <<>>] }

\* the k-th token of a vector is given the location k
Located(ts) ==
    [k \in 1..Len(ts) |-> [kind |-> ts[k].kind, val |-> ts[k].val, loc |-> k]]

TokenVectors == {Located(ts) : ts \in SeqsUpTo(TokenAlphabet, MaxTokens)}

InitParse ==
    /\ Idle("parse")
    /\ \E tokens \in TokenVectors : \E index \in 0..Len(tokens) :
          call = [fn |-> "none", index |-> index, tokens |-> tokens]
    /\ ret = NoCall

\* fn is called with the cursor and token vector drawn and returns r
Called(fn, r) ==
    /\ pc = "parse"
    /\ call.fn = "none"
    /\ call' = [call EXCEPT !.fn = fn]
    /\ ret' = r
    /\ UNCHANGED pipeline

ParseOperand == Called("parse_operand", parse_operand(call.index, call.tokens))

ParseRegister == Called("parse_register", parse_register(call.index, call.tokens))

ParseIndirect == Called("parse_indirect", parse_indirect(call.index, call.tokens))

ParseExpr == Called("parse_expr", parse_expr(call.index, call.tokens))

ParseFactor == Called("parse_factor", parse_factor(call.index, call.tokens))

Expect ==
    \E token_kind \in {"Comma", "RParen"} :
        /\ pc = "parse"
        /\ call.fn = "none"
        /\ call' = [fn |-> "expect", token_kind |-> token_kind,
                    index |-> call.index, tokens |-> call.tokens]
        /\ ret' = expect(token_kind, call.index, call.tokens)
        /\ UNCHANGED pipeline

\* parse_two_operand after its second parse_operand
TwoOperandsDst(src, dst) ==
    IF dst.tag # "Ok" THEN dst ELSE Ok(<<src.val, dst.val>>, dst.index)

\* parse_two_operand after expect(TokenKind::Comma, ..)
TwoOperandsComma(src, comma, tokens) ==
    IF comma.tag # "Ok" THEN comma
    ELSE TwoOperandsDst(src, parse_operand(comma.index, tokens))

\* parse_two_operand after its first parse_operand
TwoOperandsSrc(src, tokens) ==
    IF src.tag # "Ok" THEN src
    ELSE TwoOperandsComma(src, expect("Comma", src.index, tokens), tokens)

\* Parse e.g. (movq `rsi, rdi` )
parse_two_operand(index, tokens) == TwoOperandsSrc(parse_operand(index, tokens), tokens)

\* parse is called: let mut index = 0
ParseCall ==
    /\ pc = "parse"
    /\ call.fn = "none"
    /\ call.index = 0
    /\ call' = [call EXCEPT !.fn = "parse"]
    /\ UNCHANGED <<ret, pipeline>>

\* the body of the loop of parse, given what parse_operand returned
ParseOperandsBody(operand) ==
    IF operand.tag = "Ok"
    THEN call' = [call EXCEPT !.index = operand.index + 1] /\ ret' = ret
    ELSE ret' = operand /\ call' = call

\* one turn of the loop of parse, while index <= tokens.len(), or its end
ParseOperands ==
    /\ pc = "parse"
    /\ call.fn = "parse"
    /\ ret = NoCall
    /\ IF call.index <= Len(call.tokens)
       THEN ParseOperandsBody(parse_operand(call.index, call.tokens))
       ELSE ret' = Ok(<<>>, call.index) /\ call' = call
    /\ UNCHANGED pipeline

ParseTwoOperand ==
    Called("parse_two_operand", parse_two_operand(call.index, call.tokens))

NextParse ==
    \/ ParseOperand
    \/ ParseRegister
    \/ ParseIndirect
    \/ ParseExpr
    \/ ParseFactor
    \/ Expect

SpecParse == InitParse /\ [][NextParse]_vars

\* the longest vector of operand tokens drawn
MaxOperandTokens == 6

\* the tokens of register and indirect operands
OperandAlphabet ==
    { [kind |-> "Percent", val |-> <<>>],
      [kind |-> "Ident", val |-> <<"r", "a", "x">>],
      [kind |-> "Comma", val |-> <<>>],
      [kind |-> "LParen", val |-> <<>>],
      [kind |-> "RParen", val |-> <<>>] }

\* the longest vector of expression tokens drawn
MaxExprTokens == 5

\* the tokens of an immediate operand
ExprAlphabet ==
    { [kind |-> "Dolor", val |-> <<>>],
      [kind |-> "Number", val |-> <<"8">>],
      [kind |-> "Number", val |-> <<"4">>],
      [kind |-> "Number", val |-> <<"2">>],
      [kind |-> "Minus", val |-> <<>>] }

\* the functions are entered with the cursor on the first token of a vector
\* of operand tokens or of expression tokens
InitOperands ==
    /\ Idle("parse")
    /\ \/ \E n \in 0..MaxOperandTokens : \E ts \in [1..n -> OperandAlphabet] :
             call = [fn |-> "none", index |-> 0, tokens |-> Located(ts)]
       \/ \E n \in 1..MaxExprTokens : \E ts \in [1..n -> ExprAlphabet] :
             call = [fn |-> "none", index |-> 0, tokens |-> Located(ts)]
    /\ ret = NoCall

NextOperands ==
    \/ ParseTwoOperand
    \/ ParseIndirect
    \/ ParseOperand
    \/ ParseExpr
    \/ ParseCall
    \/ ParseOperands

SpecOperands == InitOperands /\ [][NextOperands]_vars

---------------------------------------------------------------------------
(* Expression evaluation: encoder/mod.rs                                   *)
(* A result is [tag |-> "Ok", val], [tag |-> "Err", msg] or                *)
(* [tag |-> "Panic", msg]; eval_expr_get_symbol_64 also returns arr.       *)

\* char::to_digit(10)
DigitValue(c) == CHOOSE d \in 0..9 : DigitChar[d + 1] = c

RECURSIVE DecimalValue(_)
DecimalValue(digits) ==
    IF digits = <<>> THEN 0
    ELSE 10 * DecimalValue(SubSeq(digits, 1, Len(digits) - 1))
            + DigitValue(digits[Len(digits)])

\* str::parse::<i64>(): an optional sign and at least one decimal digit
parse_i64(string) ==
    LET signed == string # <<>> /\ string[1] \in {"+", "-"}
        digits == IF signed THEN Tail(string) ELSE string
        DigitSet == {DigitChar[d] : d \in 1..10}
    IN IF digits = <<>> \/ \E k \in 1..Len(digits) : digits[k] \notin DigitSet
       THEN [tag |-> "Err", msg |-> "Failed to parse number"]
       ELSE [tag |-> "Ok",
             val |-> IF signed /\ string[1] = "-" THEN 0 - DecimalValue(digits)
                     ELSE DecimalValue(digits)]

\* i64 division truncates toward zero
TruncDiv(a, b) ==
    LET Abs(x) == IF x < 0 THEN 0 - x ELSE x
        q == Abs(a) \div Abs(b)
    IN IF (a < 0) = (b < 0) THEN q ELSE 0 - q

EvalOk(val, arr) == [tag |-> "Ok", val |-> val, arr |-> arr]

RECURSIVE eval_expr_get_symbol_64(_, _)
eval_expr_get_symbol_64(expr, arr) ==
    CASE expr.expr = "Number" ->
           LET int == parse_i64(expr.val)
           IN IF int.tag = "Ok" THEN EvalOk(int.val, arr) ELSE int
      [] expr.expr = "Binop" ->
           IF expr.op \notin {"Plus", "Minus", "Mul", "Div"}
           THEN [tag |-> "Err", msg |-> "Unimplemented yet!"]
           ELSE LET l == eval_expr_get_symbol_64(expr.left_hs, arr)
                IN IF l.tag # "Ok" THEN l
                   ELSE LET r == eval_expr_get_symbol_64(expr.right_hs, l.arr)
                        IN IF r.tag # "Ok" THEN r
                           ELSE IF expr.op = "Plus" THEN EvalOk(l.val + r.val, r.arr)
                           ELSE IF expr.op = "Minus" THEN EvalOk(l.val - r.val, r.arr)
                           ELSE IF expr.op = "Mul" THEN EvalOk(l.val * r.val, r.arr)
                           ELSE IF r.val = 0
                           THEN [tag |-> "Panic", msg |-> "attempt to divide by zero"]
                           ELSE EvalOk(TruncDiv(l.val, r.val), r.arr)
      [] expr.expr = "Ident" -> EvalOk(0, Append(arr, expr.val))
      [] expr.expr = "Neg" ->
           LET x == eval_expr_get_symbol_64(expr.val, arr)
           IN IF x.tag = "Ok" THEN EvalOk(0 - x.val, x.arr) ELSE x
      [] expr.expr = "Immediate" -> eval_expr_get_symbol_64(expr.val, arr)
      [] OTHER -> [tag |-> "Panic", msg |-> "not implemented"]

\* `as i32`: every value computed from the expressions drawn lies in i32
as_i32(v) == v

eval_expr(expr) ==
    LET x == eval_expr_get_symbol_64(expr, <<>>)
    IN IF x.tag = "Ok" THEN [tag |-> "Ok", val |-> as_i32(x.val)] ELSE x

\* the most operands an expression drawn has
MaxLeaves == 3

\* the operands drawn
Factors ==
    { ExprNumber(<<"8">>), ExprNumber(<<"0">>),
      ExprIdent(<<"f">>), ExprIdent(<<"g">>) }

\* the operators of a binary expression
BinaryOps == {"Plus", "Minus", "Mul", "Div"}

\* the binary expressions of exactly n operands, the operands of a larger one
ExprsOf[n \in 1..(MaxLeaves - 1)] ==
    IF n = 1 THEN Factors
    ELSE UNION { { ExprBinop(l, r, op) :
                     l \in ExprsOf[k], r \in ExprsOf[n - k], op \in BinaryOps } :
                 k \in 1..(n - 1) }

\* an expression as it is, as an immediate, or negated
Wrapped(wrap, x) ==
    CASE wrap = "Immediate" -> ExprImmediate(x)
      [] wrap = "Neg" -> ExprNeg(x)
      [] OTHER -> x

\* the expression evaluated: a factor, a binary expression of up to
\* MaxLeaves operands, a number that is not decimal, or a register
InitEval ==
    /\ Idle("eval")
    /\ \/ \E x \in Factors, wrap \in {"none", "Immediate", "Neg"} :
             call = [fn |-> "none", expr |-> Wrapped(wrap, x)]
       \/ \E n \in 2..MaxLeaves : \E k \in 1..(n - 1) :
             \E l \in ExprsOf[k], r \in ExprsOf[n - k], op \in BinaryOps :
                \E wrap \in {"none", "Immediate"} :
                   call = [fn |-> "none", expr |-> Wrapped(wrap, ExprBinop(l, r, op))]
       \/ call = [fn |-> "none", expr |-> ExprNumber(<<"0", "x", "8">>)]
       \/ call = [fn |-> "none", expr |-> ExprRegister(GENERAL_REGISTERS[1])]
    /\ ret = NoCall

EvalCalled(fn, r) ==
    /\ pc = "eval"
    /\ call.fn = "none"
    /\ call' = [call EXCEPT !.fn = fn]
    /\ ret' = r
    /\ UNCHANGED pipeline

EvalExprGetSymbol64 ==
    EvalCalled("eval_expr_get_symbol_64", eval_expr_get_symbol_64(call.expr, <<>>))

EvalExpr == EvalCalled("eval_expr", eval_expr(call.expr))

NextEval ==
    \/ EvalExprGetSymbol64
    \/ EvalExpr

SpecEval == InitEval /\ [][NextEval]_vars

---------------------------------------------------------------------------
(* Register lookup as a unit: encoder/arch/x86_64/registers.rs             *)

\* the names looked up: every name of the two tables, and names of neither
LookupNames ==
    {GENERAL_REGISTERS[k].lit : k \in 1..Len(GENERAL_REGISTERS)}
        \cup {XMM_REGISTERS[k].lit : k \in 1..Len(XMM_REGISTERS)}
        \cup { <<>>, <<"r", "a", "x">>, <<"R", "1", "6">>, <<"X", "M", "M">>,
               <<"X", "M", "M", "1", "6">>, <<"B">>, <<"P">> }

InitRegisters ==
    /\ Idle("registers")
    /\ \E reg_name \in LookupNames : call = [fn |-> "none", reg_name |-> reg_name]
    /\ ret = NoCall

Looked(fn, r) ==
    /\ pc = "registers"
    /\ call.fn = "none"
    /\ call' = [call EXCEPT !.fn = fn]
    /\ ret' = r
    /\ UNCHANGED pipeline

GetRegInfoBy == Looked("get_reg_info_by", get_reg_info_by(call.reg_name))

GetXmmBy == Looked("get_xmm_by", get_xmm_by(call.reg_name))

NextRegisters ==
    \/ GetRegInfoBy
    \/ GetXmmBy

SpecRegisters == InitRegisters /\ [][NextRegisters]_vars

---------------------------------------------------------------------------
(* Tokens: token.rs                                                        *)
(* A character is a one-character string, a literal a sequence of them.    *)

\* Position, without the constant file name
Position(line) == [line |-> line]

Token(kind, pos, lit) == [kind |-> kind, pos |-> pos, lit |-> lit]

\* impl TryFrom<char> for TokenKind
TokenKindTryFromChar(s) ==
    CASE s = "," -> [tag |-> "Ok", val |-> "Comma"]
      [] s = ":" -> [tag |-> "Ok", val |-> "Comma"]
      [] s = "(" -> [tag |-> "Ok", val |-> "Lpar"]
      [] s = ")" -> [tag |-> "Ok", val |-> "Rpar"]
      [] s = "+" -> [tag |-> "Ok", val |-> "Plus"]
      [] s = "-" -> [tag |-> "Ok", val |-> "Minus"]
      [] s = "*" -> [tag |-> "Ok", val |-> "Mul"]
      [] s = "/" -> [tag |-> "Ok", val |-> "Div"]
      [] s = "%" -> [tag |-> "Ok", val |-> "Percent"]
      [] s = "$" -> [tag |-> "Ok", val |-> "Dolor"]
      [] s = "\n" -> [tag |-> "Ok", val |-> "Eol"]
      [] s = NUL -> [tag |-> "Ok", val |-> "Eof"]
      [] OTHER -> [tag |-> "Err", err |-> "UnexpectedChar", of |-> s]

\* impl TryFrom<TokenKind> for &str
StrTryFromTokenKind(s) ==
    CASE s = "Comma" -> [tag |-> "Ok", val |-> <<",">>]
      [] s = "Colon" -> [tag |-> "Ok", val |-> <<":">>]
      [] s = "Lpar" -> [tag |-> "Ok", val |-> <<"(">>]
      [] s = "Rpar" -> [tag |-> "Ok", val |-> <<")">>]
      [] s = "Plus" -> [tag |-> "Ok", val |-> <<"+">>]
      [] s = "Minus" -> [tag |-> "Ok", val |-> <<"-">>]
      [] s = "Mul" -> [tag |-> "Ok", val |-> <<"*">>]
      [] s = "Div" -> [tag |-> "Ok", val |-> <<"/">>]
      [] s = "Percent" -> [tag |-> "Ok", val |-> <<"%">>]
      [] s = "Dolor" -> [tag |-> "Ok", val |-> <<"$">>]
      [] s = "Eol" -> [tag |-> "Ok", val |-> <<"\n">>]
      [] s = "Eof" -> [tag |-> "Ok", val |-> <<NUL>>]
      [] OTHER -> [tag |-> "Err", err |-> "UnexpectedKind", of |-> s]

---------------------------------------------------------------------------
(* Lexer: lexer.rs                                                         *)
(* The lexer is the record held in call: its fields c, text, idx, line and *)
(* col, the place fn its code is at ("none" between calls), the local      *)
(* start of the read_ functions and entry, idx when lex was entered.       *)

IsChar(c, ch) == c.some /\ c.val = ch

CharIn(c, set) == c.some /\ c.val \in set

\* char::is_whitespace (ASCII)
WhiteSpace == {" ", "\n", "\t", "\r"}

\* c.is_digit(10)
Digits == {DigitChar[k] : k \in 1..10}

\* c.is_digit(16)
HexDigits ==
    Digits \cup {"a", "b", "c", "d", "e", "f"} \cup {"A", "B", "C", "D", "E", "F"}

Letters ==
    {LowerCase[k] : k \in 1..Len(LowerCase)} \cup {UpperCase[k] : k \in 1..Len(UpperCase)}

\* fn is_ident in read_ident
IdentChars == Letters \cup Digits \cup {"_", ".", "-", "$"}

\* the characters lex hands to single_letter_token
SingleLetters == {",", ":", "(", ")", "+", "-", "*", "/", "$", "%"}

\* text.chars().nth(n)
Nth(text, n) == IF n < Len(text) THEN Some(text[n + 1]) ELSE None

peek(l, n) == IF Len(l.text) = l.idx + n THEN None ELSE Nth(l.text, l.idx + n)

advance(l) ==
    LET moved == [l EXCEPT !.col = @ + 1,
                           !.idx = @ + 1,
                           !.line = IF IsChar(l.c, "\n") THEN @ + 1 ELSE @]
    IN [moved EXCEPT !.c = peek(moved, 0)]

current_pos(l) == Position(l.line)

is_hex(l) ==
    IF Len(l.text) = l.idx + 1 THEN FALSE
    ELSE IsChar(l.c, "0") /\ CharIn(Nth(l.text, l.idx + 1), {"x", "X"})

\* &self.text[start..self.idx]
Slice(text, start, end) == SubSeq(text, start + 1, end)

\* the lexer after the call, and the Result returned
single_letter_token(l, c) ==
    LET moved == advance(l)
        kind == TokenKindTryFromChar(c)
        lit == StrTryFromTokenKind(kind.val)
    IN [lexer |-> moved,
        result |-> IF kind.tag # "Ok" THEN kind
                   ELSE IF lit.tag # "Ok" THEN lit
                   ELSE [tag |-> "Ok", val |-> Token(kind.val, current_pos(moved), lit.val)]]

\* Lexer::new, not yet called
NewLexer(text) ==
    [fn |-> "none", c |-> IF text = <<>> THEN None ELSE Nth(text, 0), text |-> text,
     idx |-> 0, line |-> 1, col |-> 0, start |-> 0, entry |-> 0]

\* the longest text drawn
MaxText == 3

\* the characters of the texts drawn: blank, newline, comment sign, a letter,
\* a digit, a quote, two punctuation marks and a character lex rejects
TextChars == {" ", "\n", "#", "x", "0", "\"", ",", ":", "@"}

\* idx grows without bound while skip_comment runs past the end of the
\* text; its runs are followed this far
MaxIdx == MaxText + 2

InitLex ==
    /\ Idle("lex")
    /\ \E n \in 0..MaxText : \E text \in [1..n -> TextChars] : call = NewLexer(text)
    /\ ret = NoCall

\* the code of lex is at `at`
At(at) == pc = "lex" /\ call.fn = at

Goto(l, at) ==
    /\ call' = [l EXCEPT !.fn = at]
    /\ UNCHANGED <<ret, pipeline>>

Return(l, r) ==
    /\ call' = [l EXCEPT !.fn = "none", !.start = 0]
    /\ ret' = r
    /\ UNCHANGED pipeline

\* lex is called
LexCall ==
    /\ At("none")
    /\ call' = [call EXCEPT !.fn = "lex", !.entry = call.idx]
    /\ ret' = NoCall
    /\ UNCHANGED pipeline

\* while let Some(c) = self.c fails
LexEof ==
    /\ At("lex")
    /\ ~call.c.some
    /\ Return(call, [tag |-> "Ok", val |-> Token("Eof", current_pos(call), <<NUL>>)])

LexWhitespace ==
    /\ At("lex")
    /\ CharIn(call.c, WhiteSpace)
    /\ Goto(advance(call), "lex")

LexComment ==
    /\ At("lex")
    /\ IsChar(call.c, "#")
    /\ Goto(call, "skip_comment")

\* one turn of the loop of skip_comment, or its end
SkipComment ==
    /\ At("skip_comment")
    /\ IF ~IsChar(call.c, "\n")
       THEN call.idx < MaxIdx /\ Goto(advance(call), "skip_comment")
       ELSE Goto(call, "lex")

\* read_number up to its loop
LexNumber ==
    /\ At("lex")
    /\ CharIn(call.c, Digits)
    /\ LET l == [call EXCEPT !.start = call.idx]
       IN IF is_hex(l) THEN Goto(advance(advance(l)), "read_number_hex")
          ELSE Goto(l, "read_number")

ReadNumber ==
    \E radix \in {"read_number", "read_number_hex"} :
        /\ At(radix)
        /\ IF CharIn(call.c, IF radix = "read_number" THEN Digits ELSE HexDigits)
           THEN Goto(advance(call), radix)
           ELSE Return(call, [tag |-> "Ok",
                              val |-> Token("Number", current_pos(call),
                                            Slice(call.text, call.start, call.idx))])

LexIdent ==
    /\ At("lex")
    /\ CharIn(call.c, Letters \cup {"_", "."})
    /\ Goto([call EXCEPT !.start = call.idx], "read_ident")

ReadIdent ==
    /\ At("read_ident")
    /\ IF CharIn(call.c, IdentChars)
       THEN Goto(advance(call), "read_ident")
       ELSE Return(call, [tag |-> "Ok",
                          val |-> Token("Ident", current_pos(call),
                                        Slice(call.text, call.start, call.idx))])

LexString ==
    /\ At("lex")
    /\ IsChar(call.c, "\"")
    /\ Goto([call EXCEPT !.start = call.idx], "read_string")

ReadString ==
    /\ At("read_string")
    /\ IF call.c.some /\ call.c.val # "\""
       THEN Goto(advance(call), "read_string")
       ELSE Return(call, [tag |-> "Ok",
                          val |-> Token("String", current_pos(call),
                                        Slice(call.text, call.start, call.idx))])

\* .expect(..) panics on an Err of single_letter_token
LexSingleLetter ==
    /\ At("lex")
    /\ CharIn(call.c, SingleLetters)
    /\ LET t == single_letter_token(call, call.c.val)
       IN Return(t.lexer, IF t.result.tag = "Ok" THEN t.result
                          ELSE [tag |-> "Panic", msg |-> "Non error."])

LexUnexpected ==
    /\ At("lex")
    /\ call.c.some
    /\ call.c.val \notin WhiteSpace \cup {"#", "\""} \cup Digits \cup Letters
                           \cup {"_", "."} \cup SingleLetters
    /\ Return(call, [tag |-> "Err", err |-> "UnexpectedToken", of |-> call.c.val,
                     pos |-> current_pos(call)])

NextLex ==
    \/ LexCall
    \/ LexEof
    \/ LexWhitespace
    \/ LexComment
    \/ SkipComment
    \/ LexNumber
    \/ ReadNumber
    \/ LexIdent
    \/ ReadIdent
    \/ LexString
    \/ ReadString
    \/ LexSingleLetter
    \/ LexUnexpected

SpecLex == InitLex /\ [][NextLex]_vars

\* a call that has begun goes on running, and lex is called again and again
SpecLexFair == SpecLex /\ WF_vars(NextLex)

\* the characters single_letter_token is called with
SingleLetterArgs == SingleLetters \cup {"\n", NUL, " ", "#", "\"", "x", "0", "@"}

InitSingleLetter ==
    /\ Idle("single_letter_token")
    /\ \E n \in 0..MaxText : \E text \in [1..n -> TextChars] :
          \E c \in SingleLetterArgs :
             call = [lexer |-> NewLexer(text), c |-> c, fn |-> "none"]
    /\ ret = NoCall

SingleLetterToken ==
    /\ pc = "single_letter_token"
    /\ call.fn = "none"
    /\ LET t == single_letter_token(call.lexer, call.c)
       IN /\ call' = [call EXCEPT !.fn = "single_letter_token", !.lexer = t.lexer]
          /\ ret' = t.result
    /\ UNCHANGED pipeline

NextSingleLetter == SingleLetterToken

SpecSingleLetter == InitSingleLetter /\ [][NextSingleLetter]_vars

---------------------------------------------------------------------------
(* Claims                                                                  *)

\* assign_addresses has returned (every later step leaves its results alone)
Assigned == pc \notin {"encoded", "panic"}

RECURSIVE CodeLenSum(_, _)
CodeLenSum(list, k) ==
    IF k = 0 THEN 0 ELSE CodeLenSum(list, k - 1) + Len(list[k].code)

\* C1: after assign_addresses, in every section the address of the k-th
\* instruction is the sum of the code lengths of the instructions before it,
\* addresses never decrease along the list, and the section's cursor and
\* the length of its byte buffer both equal the sum of all code lengths.
C1_AddressesArePrefixSums ==
    Assigned =>
        \A s \in 1..Len(instrs) :
            LET list == instrs[s].list
                sec == sections[instrs[s].name]
            IN /\ \A k \in 1..Len(list) : list[k].addr = CodeLenSum(list, k - 1)
               /\ \A k \in 2..Len(list) : list[k - 1].addr <= list[k].addr
               /\ sec.addr = CodeLenSum(list, Len(list))
               /\ Len(sec.code) = CodeLenSum(list, Len(list))

\* two sections laid out, one of them with an instruction at a non-zero address
C1_Witness ==
    /\ pc = "assigned"
    /\ Len(instrs) = 2
    /\ \E s \in 1..Len(instrs) : \E k \in 1..Len(instrs[s].list) :
          /\ instrs[s].list[k].addr > 0
          /\ Len(instrs[s].list[k].code) > 0

\* the four bytes of the section buffer at the relocation site
SiteBytes(rela) ==
    SubSeq(sections[rela.instr.section].code,
           rela.instr.addr + rela.offset + 1, rela.instr.addr + rela.offset + 4)

\* C2: every relocation the same-section pass resolves has, at its site, the
\* little-endian 32-bit two's-complement encoding of (symbol address -
\* instruction address - instruction length) + adjust, for forward and
\* backward references alike, and the pass ends without an arithmetic fault.
C2_PatchedDisplacement ==
    /\ panicked # "attempt to subtract with overflow"
    /\ Assigned =>
          \A j \in 1..Len(relas) :
              relas[j].is_already_resolved =>
                  SiteBytes(relas[j]) =
                      LE32(symbols[relas[j].uses].addr - relas[j].instr.addr
                           - Len(relas[j].instr.code) + relas[j].adjust)

\* the condition under which the claim says a relocation is resolved
C3_Resolvable(rela) ==
    /\ rela.uses \in DOMAIN symbols
    /\ symbols[rela.uses].section = rela.instr.section
    /\ symbols[rela.uses].binding # STB_GLOBAL
    /\ (rela.instr.is_jmp_or_call \/ rela.rtype = R_X86_64_PC32)

\* C3: when fix_same_section_relocations has returned, a relocation is
\* marked resolved if and only if its symbol is defined, lies in the section
\* of the referencing instruction, is not global-bound and the relocation is
\* a jump/call or PC32; the bytes of the instruction of any other relocation
\* are the bytes the encoder emitted.
C3_ResolvedIffSameSectionLocal ==
    Assigned =>
        \A j \in 1..Len(relas) :
            /\ relas[j].is_already_resolved <=> C3_Resolvable(relas[j])
            /\ ~relas[j].is_already_resolved =>
                  SubSeq(sections[relas[j].instr.section].code,
                         relas[j].instr.addr + 1,
                         relas[j].instr.addr + Len(relas[j].instr.code))
                      = relas[j].instr.code

\* after the pass: a resolved relocation, and one to a local symbol of the
\* same section left unresolved
C3_Witness ==
    /\ pc = "assigned"
    /\ \E j \in 1..Len(relas) : relas[j].is_already_resolved
    /\ \E j \in 1..Len(relas) :
          /\ ~relas[j].is_already_resolved
          /\ relas[j].uses \in DOMAIN symbols
          /\ symbols[relas[j].uses].section = relas[j].instr.section

\* build_symtab_strtab, rela_text_users, build_headers have returned
SymtabDone == pc \in {"symtab", "rela", "shstrtab", "headers", "written"}
RelaDone == pc \in {"rela", "shstrtab", "headers", "written"}
HeadersDone == pc \in {"headers", "written"}

\* the pending relocations of section `name` that are not marked resolved
Unresolved(name) ==
    LET Pending(r) == ~r.is_already_resolved /\ r.instr.section = name
    IN SelectSeq(relas, Pending)

Occurrences(seq, x) == Cardinality({i \in 1..Len(seq) : seq[i] = x})

\* C4: after rela_text_users, the entries of `.rela<section>` are, in order,
\* exactly one per unresolved relocation of that section (its offset and
\* type), a resolved relocation has no entry, and a section without an
\* unresolved relocation has no `.rela` list.
C4_EntriesAreUnresolvedRelas ==
    RelaDone =>
        /\ DOMAIN e.rela \subseteq {N_rela \o name : name \in DOMAIN sections}
        /\ \A name \in DOMAIN sections :
              LET U == Unresolved(name)
                  key == N_rela \o name
              IN IF U = <<>>
                 THEN /\ key \notin DOMAIN e.rela
                      /\ Occurrences(e.rela_section_names, key) = 0
                 ELSE /\ key \in DOMAIN e.rela
                      /\ Occurrences(e.rela_section_names, key) = 1
                      /\ Len(e.rela[key]) = Len(U)
                      /\ \A k \in 1..Len(U) :
                            /\ e.rela[key][k].r_offset = U[k].instr.addr + U[k].offset
                            /\ e.rela[key][k].r_info.type = U[k].rtype

\* a resolved relocation beside an unresolved one, entries emitted
C4_Witness ==
    /\ pc = "rela"
    /\ \E j \in 1..Len(relas) : relas[j].is_already_resolved
    /\ \E j \in 1..Len(relas) : ~relas[j].is_already_resolved
    /\ e.rela # EmptyMap

\* the name a string table holds at byte offset pos
RECURSIVE ReadName(_, _)
ReadName(tab, pos) ==
    IF pos + 1 > Len(tab) \/ tab[pos + 1] = NUL THEN <<>>
    ELSE <<tab[pos + 1]>> \o ReadName(tab, pos + 1)

RowName(row) == ReadName(e.strtab, row.st_name)
RowBinding(row) == row.st_info \div 16
RowType(row) == row.st_info % 16

\* every emitted entry paired with the relocation it was made from
EmittedPairs ==
    UNION {{[entry |-> e.rela[N_rela \o name][k], rela |-> Unresolved(name)[k]] :
                k \in 1..Len(Unresolved(name))} :
           name \in {n \in DOMAIN sections : N_rela \o n \in DOMAIN e.rela}}

IsLocalDefined(name) == name \in DOMAIN symbols /\ symbols[name].binding # STB_GLOBAL

UndefinedCalls ==
    {j \in 1..Len(relas) :
        /\ relas[j].uses \notin DOMAIN symbols
        /\ relas[j].instr.is_jmp_or_call
        /\ relas[j].rtype = R_X86_64_PC32
        /\ Len(relas[j].instr.code) = 5
        /\ relas[j].offset = 1
        /\ relas[j].adjust = 0}

\* C6: a PC32 relocation of a 5-byte call to an undefined name is emitted
\* as exactly one entry of type PC32 with addend -4, and .symtab has exactly
\* one synthesized row GLOBAL/NOTYPE/shndx 0/value 0 for the name, however
\* many relocations use it.
C6_UndefinedCallEmitted ==
    UndefinedCalls # {} =>
        /\ ~(panicked = "attempt to subtract with overflow" /\ e.symtab # <<>>)
        /\ RelaDone =>
              \A j \in UndefinedCalls :
                  LET key == N_rela \o relas[j].instr.section
                      at == relas[j].instr.addr + relas[j].offset
                      rows == {i \in 1..Len(e.symtab) :
                                  i > 1 /\ RowName(e.symtab[i]) = relas[j].uses}
                  IN /\ key \in DOMAIN e.rela
                     /\ Cardinality({k \in 1..Len(e.rela[key]) :
                                        e.rela[key][k].r_offset = at}) = 1
                     /\ \A k \in 1..Len(e.rela[key]) :
                           e.rela[key][k].r_offset = at =>
                               /\ e.rela[key][k].r_info.type = R_X86_64_PC32
                               /\ e.rela[key][k].r_addend = -4
                     /\ Cardinality(rows) = 1
                     /\ \A i \in rows :
                           /\ e.symtab[i].st_info = StInfo(STB_GLOBAL, STT_NOTYPE)
                           /\ e.symtab[i].st_shndx = 0
                           /\ e.symtab[i].st_value = 0

\* the header of .symtab
SymtabHeaders == {h \in 1..Len(e.section_headers) :
                     e.section_headers[h].sh_type = SHT_SYMTAB}

GlobalRows == {i \in 1..Len(e.symtab) : RowBinding(e.symtab[i]) = STB_GLOBAL}

\* the rows before the first global-bound row
RowsBeforeFirstGlobal ==
    IF GlobalRows = {} THEN Len(e.symtab)
    ELSE (CHOOSE i \in GlobalRows : \A g \in GlobalRows : i <= g) - 1

\* C7: after build_headers, sh_info of the .symtab header is the number of
\* .symtab rows that precede the first global-bound row.
C7_ShInfoCountsLocals ==
    HeadersDone =>
        /\ Cardinality(SymtabHeaders) = 1
        /\ \A h \in SymtabHeaders :
              e.section_headers[h].sh_info = RowsBeforeFirstGlobal

\* a table with a dropped local, two kept locals and a global row
C7_Witness ==
    /\ pc = "headers"
    /\ GlobalRows # {}
    /\ RowsBeforeFirstGlobal >= 3
    /\ \E n \in DOMAIN symbols : n \notin DOMAIN e.symtab_symbol_indexes

RetainedLocals ==
    {n \in DOMAIN symbols :
        /\ symbols[n].binding = STB_LOCAL
        /\ ~(~keep_locals /\ starts_with(to_uppercase(n), <<".", "L">>))}
UndefinedUsed == {relas[j].uses : j \in 1..Len(relas)} \ DOMAIN symbols
DefinedGlobals == {n \in DOMAIN symbols : symbols[n].binding = STB_GLOBAL}

\* C8: the rows of .symtab are the null symbol, then the retained
\* local-bound symbols, then one synthesized row per referenced undefined
\* symbol, then the global-bound defined symbols; no local-bound row follows
\* a global-bound row.
C8_SymtabOrder ==
    SymtabDone =>
        LET nl == Cardinality(RetainedLocals)
            nu == Cardinality(UndefinedUsed)
            ng == Cardinality(DefinedGlobals)
            Named(lo, hi) == {RowName(e.symtab[i]) : i \in lo..hi}
        IN /\ Len(e.symtab) = 1 + nl + nu + ng
           /\ e.symtab[1].st_info = StInfo(STB_LOCAL, STT_NOTYPE)
           /\ e.symtab[1].st_name = 0
           /\ \A i \in 2..(1 + nl) :
                 /\ RowBinding(e.symtab[i]) = STB_LOCAL
                 /\ \/ RowType(e.symtab[i]) = STT_SECTION
                    \/ RowName(e.symtab[i]) \in RetainedLocals
           /\ \A i \in (2 + nl)..(1 + nl + nu) :
                 /\ RowBinding(e.symtab[i]) = STB_GLOBAL
                 /\ e.symtab[i].st_shndx = 0
           /\ Named(2 + nl, 1 + nl + nu) = UndefinedUsed
           /\ \A i \in (2 + nl + nu)..Len(e.symtab) :
                 /\ RowBinding(e.symtab[i]) = STB_GLOBAL
                 /\ e.symtab[i].st_shndx # 0
           /\ Named(2 + nl + nu, Len(e.symtab)) = DefinedGlobals
           /\ \A i, k \in 1..Len(e.symtab) :
                 (RowBinding(e.symtab[i]) = STB_GLOBAL /\ i < k) =>
                     RowBinding(e.symtab[k]) = STB_GLOBAL

\* a table with rows of all three groups
C8_Witness ==
    /\ pc = "symtab"
    /\ RetainedLocals # {}
    /\ UndefinedUsed # {}
    /\ DefinedGlobals # {}

\* name followed by NUL stands in the table after a NUL
InTable(tab, name) ==
    \E pos \in 1..Len(tab) :
        /\ tab[pos] = NUL
        /\ pos + Len(name) + 1 <= Len(tab)
        /\ SubSeq(tab, pos + 1, pos + Len(name) + 1) = name \o <<NUL>>

RowsNamed(name) == {i \in 2..Len(e.symtab) : RowName(e.symtab[i]) = name}

\* what the claim says of the symbol `name` for the two values of keep_locals
C9_Treated(name) ==
    IF ~keep_locals
    THEN /\ RowsNamed(name) = {}
         /\ ~InTable(e.strtab, name)
    ELSE /\ Cardinality(RowsNamed(name)) = 1
         /\ InTable(e.strtab, name)
         /\ \A h \in SymtabHeaders : \A i \in RowsNamed(name) :
               i <= e.section_headers[h].sh_info

\* C9 as stated: every symbol whose name starts with `.L` is left out of
\* .symtab and .strtab when keep_locals is unset, and has a row, a name in
\* .strtab and a place among the sh_info rows when it is set.
C9_DotLSymbols ==
    HeadersDone =>
        \A name \in DOMAIN symbols :
            starts_with(name, <<".", "L">>) => C9_Treated(name)

\* C9 amended: the same of every local-bound symbol whose name starts with
\* `.L`; a global-bound symbol of such a name has its row among the global
\* rows whatever keep_locals is.
C9_LocalDotLSymbols ==
    HeadersDone =>
        \A name \in DOMAIN symbols :
            starts_with(name, <<".", "L">>) =>
                IF symbols[name].binding = STB_LOCAL THEN C9_Treated(name)
                ELSE /\ Cardinality(RowsNamed(name)) = 1
                     /\ InTable(e.strtab, name)
                     /\ \A h \in SymtabHeaders : \A i \in RowsNamed(name) :
                           i > e.section_headers[h].sh_info

\* a local-bound `.L` symbol kept, beside another kept local
C9_Witness ==
    /\ pc = "headers"
    /\ keep_locals
    /\ N_L1 \in DOMAIN symbols
    /\ symbols[N_L1].binding = STB_LOCAL
    /\ RowsNamed(N_L1) # {}

\* the sections write_elf writes, in the order of their headers
HeaderNames ==
    <<N_empty>> \o e.user_defined_section_names \o <<N_strtab, N_symtab>>
        \o e.rela_section_names \o <<N_shstrtab>>

Chunks(what) == {i \in 1..Len(file) : file[i].what = what}

\* the offset of the first byte written for `what`
WrittenAt(what) ==
    file[CHOOSE i \in Chunks(what) : \A k \in Chunks(what) : i <= k].offset

\* C10: every section header's sh_offset is the file offset at which
\* write_elf writes the section's content, the byte ranges of distinct
\* non-empty sections do not overlap, and e_shoff is the offset at which
\* the first section header is written.
C10_OffsetsAreWritePositions ==
    pc = "written" =>
        /\ Len(HeaderNames) = Len(e.section_headers)
        /\ \A h \in 2..Len(e.section_headers) :
              e.section_headers[h].sh_offset = WrittenAt(HeaderNames[h])
        /\ \A h, g \in 2..Len(e.section_headers) :
              LET a == e.section_headers[h]
                  b == e.section_headers[g]
              IN (h # g /\ a.sh_size > 0 /\ b.sh_size > 0) =>
                    \/ a.sh_offset + a.sh_size <= b.sh_offset
                    \/ b.sh_offset + b.sh_size <= a.sh_offset
        /\ e.ehdr.e_shoff = WrittenAt(<<"Shdr">>)

---------------------------------------------------------------------------
(* Sizes, directives                                                       *)

RECURSIVE SumSizes(_, _)
SumSizes(f, what) ==
    IF f = <<>> THEN 0
    ELSE SumSizes(Tail(f), what) + (IF Head(f).what = what THEN Head(f).size ELSE 0)

\* the number of bytes write_elf has written for the section `what`
BytesWritten(what) == SumSizes(file, what)

\* C11: every section header's sh_size is the number of bytes write_elf
\* writes for the section; the .symtab header's sh_size is the number of
\* .symtab rows times 24 and each .rela header's is its entry count times 24.
C11_SizesAreBytesWritten ==
    pc = "written" =>
        /\ Len(HeaderNames) = Len(e.section_headers)
        /\ \A h \in 2..Len(e.section_headers) :
              e.section_headers[h].sh_size = BytesWritten(HeaderNames[h])
        /\ \A h \in SymtabHeaders :
              e.section_headers[h].sh_size = Len(e.symtab) * 24
        /\ \A k \in 1..Len(e.rela_section_names) :
              \A h \in 1..Len(e.section_headers) :
                  HeaderNames[h] = e.rela_section_names[k] =>
                      e.section_headers[h].sh_size = Len(e.rela[e.rela_section_names[k]]) * 24

\* the instructions in the order assign_addresses visits them
RECURSIVE Flatten(_)
Flatten(list) ==
    IF list = <<>> THEN <<>> ELSE Head(list).list \o Flatten(Tail(list))

IsBindingDirective(i) == i.kind \in {"Global", "Local"}
IsVisibilityDirective(i) == i.kind \in {"Hidden", "Internal", "Protected"}
IsDirective(i) == IsBindingDirective(i) \/ IsVisibilityDirective(i)

\* the directives of the program, in the order they are applied
Directives == SelectSeq(Flatten(instrs), IsDirective)

RequestedBinding(d) == IF d.kind = "Global" THEN STB_GLOBAL ELSE STB_LOCAL
RequestedVisibility(d) ==
    CASE d.kind = "Hidden" -> STV_HIDDEN
      [] d.kind = "Internal" -> STV_INTERNAL
      [] d.kind = "Protected" -> STV_PROTECTED

\* the cases in which the claim says a directive fails
NamesNoEntry(d) == d.symbol_name \notin DOMAIN symbols
MakesSectionGlobal(d) ==
    /\ d.symbol_name \in DOMAIN symbols
    /\ d.kind = "Global"
    /\ symbols[d.symbol_name].symbol_type = STT_SECTION
DirectiveFails(d) == NamesNoEntry(d) \/ MakesSectionGlobal(d)

\* the position of the first failing directive, Len + 1 when none fails
FirstFailure ==
    LET failing == {p \in 1..Len(Directives) : DirectiveFails(Directives[p])}
    IN IF failing = {} THEN Len(Directives) + 1
       ELSE CHOOSE p \in failing : \A q \in failing : p <= q

\* the value the last directive of ds that names `name` and satisfies Is asks for
RECURSIVE LastRequested(_, _, _, _, _)
LastRequested(ds, name, Is(_), Requested(_), otherwise) ==
    IF ds = <<>> THEN otherwise
    ELSE LET d == ds[Len(ds)]
         IN IF d.symbol_name = name /\ Is(d) THEN Requested(d)
            ELSE LastRequested(SubSeq(ds, 1, Len(ds) - 1), name, Is, Requested, otherwise)

\* C12: a binding or visibility directive that names a symbol without
\* symbol-table entry fails, and so does a directive making a section symbol
\* global; the failing directive changes no entry (every binding and
\* visibility is what the directives before it set), and a directive that
\* does not fail sets the binding, respectively visibility, it asks for.
C12_DirectivesFailOrSet ==
    [][(pc = "encoded" /\ pc' # "encoded") =>
         LET p == FirstFailure
             applied == SubSeq(Directives, 1, p - 1)
         IN /\ (p <= Len(Directives)) <=> (pc' = "panic")
            /\ (p <= Len(Directives) /\ NamesNoEntry(Directives[p])) =>
                  panicked' = "undefined symbol"
            /\ (p <= Len(Directives) /\ MakesSectionGlobal(Directives[p])) =>
                  panicked' = "sections cannot be global"
            /\ DOMAIN symbols' = DOMAIN symbols
            /\ \A n \in DOMAIN symbols :
                  /\ symbols'[n].binding =
                        LastRequested(applied, n, IsBindingDirective,
                                      RequestedBinding, symbols[n].binding)
                  /\ symbols'[n].visibility =
                        LastRequested(applied, n, IsVisibilityDirective,
                                      RequestedVisibility, symbols[n].visibility)
      ]_vars

\* a directive failed on a section symbol after another had made f global
C12_Witness ==
    /\ pc = "panic"
    /\ panicked = "sections cannot be global"
    /\ N_f \in DOMAIN symbols
    /\ symbols[N_f].binding = STB_GLOBAL
    /\ symbols[N_text].binding = STB_LOCAL

\* the instruction a symbol was defined by
DefinedAt(list, n) ==
    CHOOSE k \in 1..Len(list) : list[k].id = symbols[n].id

---------------------------------------------------------------------------
(* Prefixes                                                                *)

IsRexByte(byte) == byte \in 64..79

\* add_prefix appended a REX byte to the code
RexAppended(code) == code # <<>> /\ IsRexByte(code[Len(code)])

ForcedRex(reg) ==
    reg.lit \in {<<"S", "P", "L">>, <<"B", "P", "L">>, <<"S", "I", "L">>, <<"D", "I", "L">>}

\* C14: for every reg, index and base register and every size list,
\* add_prefix appends a REX byte if and only if the size list contains Quad,
\* or the reg, index or base register has base offset >= 8, or one of the
\* three is SPL, BPL, SIL or DIL.
C14_RexIffNeeded ==
    call.fn = "add_prefix" =>
        (RexAppended(ret.current_instr.code) <=>
            \/ Contains(call.sizes, "Quad")
            \/ call.reg_r.base_offset >= 8
            \/ call.reg_i.base_offset >= 8
            \/ call.reg_b.base_offset >= 8
            \/ ForcedRex(call.reg_r) \/ ForcedRex(call.reg_i) \/ ForcedRex(call.reg_b))

---------------------------------------------------------------------------
(* Order                                                                   *)

\* one iteration order of a hash map with key set S, the same every time
FirstOrder(S) == CHOOSE p \in Perms(S) : TRUE

\* the writer run from the tables of this state, every hash map being
\* iterated in its FirstOrder
SecondRun ==
    LET e1 == ElfNewFrom([DefaultElf EXCEPT !.keep_locals = keep_locals],
                         FirstOrder(DOMAIN sections))
        e2 == collect_rela_symbols(e1, 1)
        r3 == build_symtab_strtab(e2, FirstOrder(DOMAIN symbols))
        r4 == rela_text_users([e |-> r3.e, panicked |-> ""], 1, overflow_checks)
        e5 == build_shstrtab(r4.e, FirstOrder(DOMAIN r4.e.rela))
        r6 == build_headers(e5)
    IN [e |-> r6.e, file |-> write_elf(r6.e)]

\* what of an Elf value and of the chunks written makes the bytes of the file
Output(el, f) ==
    [ehdr |-> el.ehdr,
     sections |-> el.user_defined_section_names,
     strtab |-> el.strtab,
     symtab |-> el.symtab,
     rela |-> [k \in 1..Len(el.rela_section_names) |-> el.rela[el.rela_section_names[k]]],
     shstrtab |-> el.shstrtab,
     section_headers |-> el.section_headers,
     file |-> f]

\* C15: two runs of the writer from the same symbol table, relocation list
\* and section map write the same bytes: the output of a run is the output
\* of the run that iterates every hash map in one fixed order.
C15_OutputIsDeterministic ==
    pc = "written" => Output(e, file) = Output(SecondRun.e, SecondRun.file)

\* the sections in the order they were first declared
Declared == [s \in 1..Len(instrs) |-> instrs[s].name]

\* the names of the sections written for the user, in file order
RECURSIVE WrittenUserSections(_)
WrittenUserSections(f) ==
    IF f = <<>> THEN <<>>
    ELSE (IF Head(f).what \in DOMAIN sections THEN <<Head(f).what>> ELSE <<>>)
         \o WrittenUserSections(Tail(f))

\* C16: the PROGBITS headers and the section contents written follow the
\* order in which the sections were declared, the header index of a section
\* is 1 + its position in that order, and st_shndx of every row of a defined
\* symbol is the header index of the symbol's section.
C16_DeclarationOrder ==
    pc = "written" =>
        /\ WrittenUserSections(file) = Declared
        /\ \A s \in 1..Len(Declared) :
              /\ e.section_headers[s + 1].sh_type = SHT_PROGBITS
              /\ e.section_headers[s + 1].sh_name = e.section_name_offs[Declared[s]]
              /\ e.user_defined_section_idx[Declared[s]] = s
        /\ \A n \in DOMAIN symbols :
              n \in DOMAIN e.symtab_symbol_indexes =>
                  LET row == e.symtab[e.symtab_symbol_indexes[n] + 1]
                  IN /\ row.st_shndx \in 1..Len(e.section_headers) - 1
                     /\ e.section_headers[row.st_shndx + 1].sh_name =
                            e.section_name_offs[symbols[n].section]

---------------------------------------------------------------------------
(* The writer's frame and headers                                          *)

\* a step of the ELF writer is about to be taken
WriterStep ==
    pc \in {"assigned", "new", "collected", "symtab", "rela", "shstrtab", "headers"}

\* C17: no step of the ELF writer (Elf::new, collect_rela_symbols,
\* build_symtab_strtab, rela_text_users, build_shstrtab, build_headers,
\* write_elf) changes the symbol table, the relocation list or the section
\* map.
C17_WriterLeavesTablesAlone ==
    [][WriterStep =>
          /\ symbols' = symbols
          /\ relas' = relas
          /\ sections' = sections]_vars

\* the writer has run to its end over symbols with addresses, section bytes
\* and a pending and a resolved relocation
C17_Witness ==
    /\ pc = "written"
    /\ \E n \in DOMAIN symbols : symbols[n].addr > 0
    /\ \E j \in 1..Len(relas) : relas[j].is_already_resolved
    /\ \E j \in 1..Len(relas) : ~relas[j].is_already_resolved

\* the name the header h carries, read from .shstrtab
HeaderName(h) == ReadName(e.shstrtab, e.section_headers[h].sh_name)

RelaHeaderSet == {h \in 1..Len(e.section_headers) :
                      e.section_headers[h].sh_type = SHT_RELA}

\* C18: after build_headers e_shnum is the number of section headers, which
\* is 1 (null) + the user sections + 2 (.strtab, .symtab) + the relocation
\* sections + 1 (.shstrtab); e_shstrndx is e_shnum - 1 and the header at that
\* index is the header of .shstrtab.
C18_HeaderCount ==
    HeadersDone =>
        /\ e.ehdr.e_shnum = Len(e.section_headers)
        /\ e.ehdr.e_shnum =
              1 + Cardinality(DOMAIN sections) + 2 + Cardinality(DOMAIN e.rela) + 1
        /\ e.ehdr.e_shstrndx = e.ehdr.e_shnum - 1
        /\ e.section_headers[e.ehdr.e_shstrndx + 1].sh_type = SHT_STRTAB
        /\ HeaderName(e.ehdr.e_shstrndx + 1) = N_shstrtab
        /\ e.section_headers[e.ehdr.e_shstrndx + 1].sh_size = Len(e.shstrtab)

\* headers built for two user sections and a relocation section
C18_Witness ==
    /\ pc = "headers"
    /\ Cardinality(DOMAIN sections) = 2
    /\ Cardinality(DOMAIN e.rela) >= 1

\* the index of the header named `name`
HeaderIndex(name) ==
    (CHOOSE h \in 1..Len(e.section_headers) : HeaderName(h) = name) - 1

\* C19: after build_headers there is exactly one SHT_RELA header
\* `.rela<section>` for each section with an unresolved relocation and none
\* for any other section; its sh_info is the header index of <section>, its
\* sh_link the header index of .symtab, and its entries carry r_offset =
\* instruction address + recorded offset and r_info = a .symtab row index in
\* the high half and the relocation type in the low half.
C19_RelaHeaders ==
    HeadersDone =>
        /\ \A h \in RelaHeaderSet :
              \E name \in DOMAIN sections :
                  HeaderName(h) = N_rela \o name /\ Unresolved(name) # <<>>
        /\ \A name \in DOMAIN sections :
              LET hs == {h \in RelaHeaderSet : HeaderName(h) = N_rela \o name}
                  U == Unresolved(name)
              IN IF U = <<>> THEN hs = {}
                 ELSE /\ Cardinality(hs) = 1
                      /\ \A h \in hs :
                            /\ e.section_headers[h].sh_info = HeaderIndex(name)
                            /\ e.section_headers[h].sh_link = HeaderIndex(N_symtab)
                            /\ e.section_headers[HeaderIndex(name) + 1].sh_type = SHT_PROGBITS
                            /\ e.section_headers[HeaderIndex(N_symtab) + 1].sh_type = SHT_SYMTAB
                      /\ \A k \in 1..Len(U) :
                            LET entry == e.rela[N_rela \o name][k]
                            IN /\ entry.r_offset = U[k].instr.addr + U[k].offset
                               /\ entry.r_info.type = U[k].rtype
                               /\ entry.r_info.sym \in 0..Len(e.symtab) - 1

\* a relocation header whose target is the second user section, beside a
\* relocation that was resolved
C19_Witness ==
    /\ pc = "headers"
    /\ \E h \in RelaHeaderSet : e.section_headers[h].sh_info = 2
    /\ \E j \in 1..Len(relas) : relas[j].instr.addr > 0

---------------------------------------------------------------------------
(* The operand parser                                                      *)

ParserFunctions ==
    {"parse_operand", "parse_register", "parse_indirect", "parse_expr",
     "parse_factor", "expect"}

\* C20: for every token vector and cursor position, parse_operand,
\* parse_register, parse_indirect, parse_expr, parse_factor and expect
\* return Ok or an Err that carries a source location; none of them aborts
\* the process by indexing outside the token vector.
C20_ParserErrorsAreRecoverable ==
    call.fn \in ParserFunctions =>
        /\ ret.tag \in {"Ok", "Err"}
        /\ ret.tag = "Err" => ret.loc \in 1..Len(call.tokens)

---------------------------------------------------------------------------
(* C21: two operands separated by a comma *)

\* the token vector is exactly the k tokens of the kinds given
HasKinds(tokens, kinds) ==
    /\ Len(tokens) = Len(kinds)
    /\ \A k \in 1..Len(kinds) : tokens[k].kind = kinds[k]

\* C21: parse_two_operand called on `%register , %register`, two well-formed
\* operands separated by a comma, returns Ok with the pair (source,
\* destination) of the two registers.
C21_TwoOperandsParsed ==
    (/\ call.fn = "parse_two_operand"
     /\ HasKinds(call.tokens, <<"Percent", "Ident", "Comma", "Percent", "Ident">>))
        => /\ ret.tag = "Ok"
           /\ ret.val = <<parse_operand(0, call.tokens).val,
                          parse_operand(3, call.tokens).val>>

---------------------------------------------------------------------------
(* C22: an immediate operand made of one factor *)

\* the token under the cursor is the last one and is a number or an identifier
LoneFactorAt(index, tokens) ==
    /\ Len(tokens) = index + 1
    /\ tokens[index + 1].kind \in {"Number", "Ident"}

\* the expression a lone number or identifier token stands for
FactorOf(token) ==
    IF token.kind = "Number" THEN ExprNumber(token.val) ELSE ExprIdent(token.val)

\* C22: parse_operand called on `$` followed by a single numeric literal or
\* identifier returns Ok(Immediate(e)) with e that literal, and parse_expr
\* called on a lone factor returns Ok with that factor.
C22_LoneFactorAccepted ==
    /\ (/\ call.fn = "parse_operand"
        /\ call.index < Len(call.tokens)
        /\ call.tokens[call.index + 1].kind = "Dolor"
        /\ LoneFactorAt(call.index + 1, call.tokens))
          => /\ ret.tag = "Ok"
             /\ ret.val = ExprImmediate(FactorOf(call.tokens[call.index + 2]))
    /\ (/\ call.fn = "parse_expr"
        /\ LoneFactorAt(call.index, call.tokens))
          => /\ ret.tag = "Ok"
             /\ ret.val = FactorOf(call.tokens[call.index + 1])

---------------------------------------------------------------------------
(* C23: associativity of the binary operators *)

\* the tokens are `a op1 b op2 c`, three factors joined by two operators
ThreeFactors(tokens) ==
    /\ Len(tokens) = 5
    /\ \A k \in {1, 3, 5} : tokens[k].kind \in {"Number", "Ident"}
    /\ \A k \in {2, 4} : tokens[k].kind \in {"Div", "Minus", "Mul", "Plus"}

\* C23: binary operators are left-associative: parse_expr called on
\* `a op1 b op2 c` returns Ok(Binop(Binop(a, op1, b), op2, c)), the tree whose
\* evaluation makes `8 - 4 - 2` equal to 2.
C23_LeftAssociative ==
    (/\ call.fn = "parse_expr"
     /\ call.index = 0
     /\ ThreeFactors(call.tokens))
        => /\ ret.tag = "Ok"
           /\ ret.val = ExprBinop(ExprBinop(FactorOf(call.tokens[1]),
                                            FactorOf(call.tokens[3]),
                                            call.tokens[2].kind),
                                  FactorOf(call.tokens[5]),
                                  call.tokens[4].kind)

---------------------------------------------------------------------------
(* C24: indirect operands opening with a parenthesis *)

\* parse_indirect is entered on a `(`
OpensWithParen ==
    /\ call.fn = "parse_indirect"
    /\ call.index < Len(call.tokens)
    /\ call.tokens[call.index + 1].kind = "LParen"

\* a comma follows the `(`
CommaFollows ==
    /\ call.index + 1 < Len(call.tokens)
    /\ call.tokens[call.index + 2].kind = "Comma"

\* the result of the form without a comma
DisplacementAlone ==
    /\ ret.tag = "Ok"
    /\ ret.val = ExprIndirection(Some(ExprNumber(<<"0">>)), None, None, None)

\* the result of the comma form: all four parts, closed by a `)`
AllPartsClosed ==
    /\ ret.val.expr = "Indirection"
    /\ ret.val.disp = Some(ExprNumber(<<"0">>))
    /\ ret.val.base.some
    /\ ret.val.index.some
    /\ ret.val.scale.some
    /\ call.tokens[ret.index + 1].kind = "RParen"

\* C24: parse_indirect entered on `(` uses the displacement Number 0; without
\* a comma after the `(` it returns the Indirection holding the displacement
\* alone; with a comma it returns base, index and scale as well, closed by a
\* `)`, and returns an error when the `)` is not there.
C24_IndirectForms ==
    OpensWithParen
        => /\ ~CommaFollows => DisplacementAlone
           /\ CommaFollows => \/ ret.tag = "Ok" /\ AllPartsClosed
                              \/ ret.tag = "Err"

---------------------------------------------------------------------------
(* C25: expressions with more than one identifier *)

\* the number of identifiers in an expression
RECURSIVE CountIdents(_)
CountIdents(expr) ==
    CASE expr.expr = "Ident" -> 1
      [] expr.expr = "Binop" -> CountIdents(expr.left_hs) + CountIdents(expr.right_hs)
      [] expr.expr \in {"Neg", "Immediate"} -> CountIdents(expr.val)
      [] OTHER -> 0

\* an expression eval_expr is meant for: numbers, identifiers, arithmetic
RECURSIVE IsArithmetic(_)
IsArithmetic(expr) ==
    CASE expr.expr \in {"Ident", "Number"} -> TRUE
      [] expr.expr = "Binop" -> IsArithmetic(expr.left_hs) /\ IsArithmetic(expr.right_hs)
      [] expr.expr \in {"Neg", "Immediate"} -> IsArithmetic(expr.val)
      [] OTHER -> FALSE

\* C25: eval_expr returns Err whenever the expression evaluated has more than
\* one identifier, and returns Ok with the integer value when it has none.
C25_TwoIdentifiersRejected ==
    (call.fn = "eval_expr" /\ IsArithmetic(call.expr))
        => /\ CountIdents(call.expr) > 1 => ret.tag = "Err"
           /\ CountIdents(call.expr) = 0 => ret.tag = "Ok"

---------------------------------------------------------------------------
(* C26: the register tables *)

\* the entries of a table that carry the name
EntriesNamed(table, reg_name) == {k \in 1..Len(table) : table[k].lit = reg_name}

\* the lookup returned the one entry of that name, or an error for a name
\* the table does not have
ReturnsTheEntry(table) ==
    LET hits == EntriesNamed(table, call.reg_name)
    IN IF hits = {} THEN ret.tag = "Err"
       ELSE /\ Cardinality(hits) = 1
            /\ ret.tag = "Ok"
            /\ \A k \in hits : ret.val = table[k]
            /\ ret.val.base_offset \in 0..15

\* C26: the general register table has 72 entries and the XMM table 16; no
\* name occurs twice, so get_reg_info_by and get_xmm_by return for a name of
\* their table the one entry of that name, with its width class and a base
\* offset in 0..15, and an error for any other name.
C26_LookupReturnsUniqueEntry ==
    /\ Len(GENERAL_REGISTERS) = 72
    /\ Len(XMM_REGISTERS) = 16
    /\ call.fn = "get_reg_info_by" => ReturnsTheEntry(GENERAL_REGISTERS)
    /\ call.fn = "get_xmm_by" => ReturnsTheEntry(XMM_REGISTERS)

---------------------------------------------------------------------------
(* C27: single_letter_token *)

\* C27: for each of the punctuation characters , : ( ) + - * / $ %
\* single_letter_token(c) returns Ok with a token whose lit is c and whose
\* kind is the kind written c (character to kind to text gives c back); for
\* any other character it returns Err(UnexpectedChar(c)).
C27_SingleLetterRoundTrip ==
    call.fn = "single_letter_token"
        => IF call.c \in SingleLetters
           THEN /\ ret.tag = "Ok"
                /\ ret.val.lit = <<call.c>>
                /\ StrTryFromTokenKind(ret.val.kind) = [tag |-> "Ok", val |-> <<call.c>>]
           ELSE ret = [tag |-> "Err", err |-> "UnexpectedChar", of |-> call.c]

---------------------------------------------------------------------------
(* C28: every call of lex returns *)

\* lex is running
LexRunning == call.fn # "none"

\* lex has returned a token or an error
LexReturned == call.fn = "none" /\ ret # NoCall

\* C28: every call of lex on a finite text returns, after finitely many
\* steps, a token or an error, wherever blanks, `#` comments and the end of
\* the text occur, a comment running to the end of the text included.
C28_LexReturns == LexRunning ~> LexReturned

---------------------------------------------------------------------------
(* C29: lex makes progress *)

\* the last call returned a token other than Eof
ReturnedToken == LexReturned /\ ret.tag = "Ok" /\ ret.val.kind # "Eof"

\* the last call returned Eof or an error
ReturnedEofOrError ==
    LexReturned /\ (ret.tag = "Err" \/ (ret.tag = "Ok" /\ ret.val.kind = "Eof"))

\* C29: lex called again and again eventually returns Eof or an error, as
\* every call that returns another token has moved idx forward by at least
\* one character.
C29_LexProgress ==
    /\ [](ReturnedToken => call.idx > call.entry)
    /\ <>ReturnedEofOrError

---------------------------------------------------------------------------
(* C30: the operand loop of parse *)

\* the token vector is a sequence of register operands `% name`, with names
\* of the register table: well-formed operands, none of them malformed
RegisterOperandsOnly(tokens) ==
    /\ Len(tokens) % 2 = 0
    /\ \A k \in 1..Len(tokens) :
          IF k % 2 = 1 THEN tokens[k].kind = "Percent"
          ELSE /\ tokens[k].kind = "Ident"
               /\ get_reg_info_by(to_uppercase(tokens[k].val)).tag = "Ok"

\* C30: parse terminates on every finite token vector without reading
\* outside the vector: it returns Ok(()) once the cursor has moved past the
\* last token of a vector of well-formed operands, the empty vector included,
\* and Err at the first malformed operand.
C30_ParseStaysInsideVector ==
    (call.fn = "parse" /\ ret # NoCall)
        => /\ ret.tag \in {"Ok", "Err"}
           /\ RegisterOperandsOnly(call.tokens) => ret.tag = "Ok"

====
